---- MODULE Spec2Model ----
(***************************************************************************)
(* Verification model of the job scheduler core: the Retry Executor        *)
(* (utils/retryWithBackoff), the Job Repository (JobDbRepository), the     *)
(* Local Ready Queue (JobProcessingQueue) and the Job Processor            *)
(* (JobProcessor).                                                         *)
(*                                                                         *)
(* Four specifications share the module:                                   *)
(*   RetrySpec  one retryWithBackoff call against an arbitrary operation   *)
(*   SaveSpec   concurrent saveJob calls creating jobs of type single      *)
(*   RepoSpec   concurrent repository claim calls on one collection        *)
(*   Spec       workers (JobProcessor instances) sharing one collection    *)
(***************************************************************************)
EXTENDS Integers, Sequences, FiniteSets, Bags, TLC

VARIABLES
    retry,      \* RetrySpec: the state of one retryWithBackoff call
    coll,       \* SaveSpec: the documents of the collection (a sequence)
    savers,     \* SaveSpec: the saveJob calls in flight
    clock,      \* wall clock (new Date()), shared by every caller
    store,      \* RepoSpec, Spec: the collection, one record per job id
    calls,      \* RepoSpec: the repository calls in flight
    cfg,        \* Spec: the configuration the workers were constructed with
    proc,       \* Spec: per worker, the JobProcessor's fields
    ops         \* Spec: per worker, the store operations in flight

retryVars == <<retry>>
saveVars == <<coll, savers>>
repoVars == <<store, calls>>
procVars == <<cfg, proc, ops>>
vars == <<retry, coll, savers, clock, store, calls, cfg, proc, ops>>

NULL == -1

Min(a, b) == IF a <= b THEN a ELSE b
Max(a, b) == IF a >= b THEN a ELSE b

RECURSIVE Pow2(_)
Pow2(k) == IF k <= 0 THEN 1 ELSE 2 * Pow2(k - 1)

Range(s) == {s[i] : i \in 1..Len(s)}

(***************************************************************************)
(* Retry Executor: utils/retryWithBackoff                                  *)
(***************************************************************************)

\* Bounds of the retry model.
MaxRetriesBound == 3
MaxBaseDelay == 2

\* The errors an operation may throw: null, or an object with a code, a
\* codeName and a message (the message is modelled by what it includes).
NoError == [kind |-> "null"]
MkError(code, codeName, message) ==
    [kind |-> "error", code |-> code, codeName |-> codeName, message |-> message]
Errors ==
    {NoError,
     MkError(0, "none", "plain"),
     MkError(112, "none", "plain"),
     MkError(11000, "none", "plain"),
     MkError(0, "WriteConflict", "plain"),
     MkError(0, "none", "has WriteConflict"),
     MkError(0, "none", "has duplicate key")}

\* What one invocation of the operation does: resolve with a value or reject.
Outcomes == {[ok |-> TRUE, value |-> "result"]} \cup [ok : {FALSE}, error : Errors]

\* defaultShouldRetry(error)
DefaultShouldRetry(error) ==
    IF error = NoError
    THEN FALSE
    ELSE \/ error.code = 11000
         \/ error.codeName = "WriteConflict"
         \/ error.code = 112
         \/ error.message = "has WriteConflict"
         \/ error.message = "has duplicate key"

\* attempt === maxRetries || !shouldRetry(error): the error is thrown.
RetryGivesUpAlways(attempt, maxRetries, error) == attempt = maxRetries
RetryGivesUp(attempt, maxRetries, error) ==
    attempt = maxRetries \/ ~DefaultShouldRetry(error)

\* Math.min(baseDelay * 2 ** attempt + jitter, maxDelay)
RetryDelayUncapped(baseDelay, maxDelay, attempt, jitter) ==
    baseDelay * Pow2(attempt) + jitter
RetryDelay(baseDelay, maxDelay, attempt, jitter) ==
    Min(baseDelay * Pow2(attempt) + jitter, maxDelay)

\* Math.random() * baseDelay lies in [0, baseDelay); whole milliseconds here.
Jitters(baseDelay) == IF baseDelay > 0 THEN 0..(baseDelay - 1) ELSE {0}

RetryOptions ==
    [maxRetries : 0..MaxRetriesBound, baseDelay : 1..MaxBaseDelay, maxDelay : {1, 4}]

RetryStart(o) ==
    [opts |-> o, pc |-> "loop", attempt |-> 0, calls |-> 0,
     history |-> <<>>, sleeps |-> <<>>, slept |-> <<>>,
     result |-> [ok |-> FALSE, error |-> NoError]]

\* One pass through the body of the for loop: invoke the operation; return
\* its value, throw its error, or compute the delay and start sleeping.
RetryAttempt ==
    /\ retry.pc = "loop"
    /\ retry.attempt <= retry.opts.maxRetries
    /\ \E out \in Outcomes :
         LET r == [retry EXCEPT !.calls = @ + 1, !.history = Append(@, out)] IN
         IF out.ok
         THEN retry' = [r EXCEPT !.pc = "returned", !.result = out]
         ELSE IF RetryGivesUp(retry.attempt, retry.opts.maxRetries, out.error)
         THEN retry' = [r EXCEPT !.pc = "thrown", !.result = out]
         ELSE \E jitter \in Jitters(retry.opts.baseDelay) :
                retry' = [r EXCEPT !.pc = "sleeping",
                            !.sleeps = Append(@, RetryDelay(retry.opts.baseDelay,
                                retry.opts.maxDelay, retry.attempt, jitter)),
                            !.slept = Append(@, retry.attempt)]
    /\ UNCHANGED <<coll, savers, clock, store, calls, cfg, proc, ops>>

\* The timer of the sleep fires: attempt += 1 and the loop continues.
RetryWake ==
    /\ retry.pc = "sleeping"
    /\ retry' = [retry EXCEPT !.pc = "loop", !.attempt = @ + 1]
    /\ UNCHANGED <<coll, savers, clock, store, calls, cfg, proc, ops>>

\* The statement after the loop (throw lastError) needs attempt > maxRetries
\* at the loop test, which the loop body never leaves behind: every pass with
\* attempt = maxRetries returns or throws.

RetryIdle == [opts |-> [maxRetries |-> 0, baseDelay |-> 1, maxDelay |-> 1],
              pc |-> "unused", attempt |-> 0, calls |-> 0, history |-> <<>>,
              sleeps |-> <<>>, slept |-> <<>>,
              result |-> [ok |-> FALSE, error |-> NoError]]

(***************************************************************************)
(* Job Repository: saveJob for a job of type single that has no _id yet    *)
(***************************************************************************)

JobNames == {"A", "B"}

\* Bound: the number of concurrent saveJob calls.
NumSavers == 3
SaverIds == 1..NumSavers

\* The instant of the saveJob calls (const now = new Date()) and the
\* nextRunAt values of the jobs saved: none, in the past, in the future.
SaveNow == 2
SaveRunAts == {NULL, 1, 3}

SaverIdle == [pc |-> "idle", name |-> "A", nextRunAt |-> NULL, protect |-> NULL,
              setRunAt |-> FALSE, ret |-> 0]

\* if (props.nextRunAt && props.nextRunAt <= now): the field moves from $set
\* to $setOnInsert.
SaveProtects(nextRunAt, now) == nextRunAt # NULL /\ nextRunAt <= now

\* The documents matched by the query {name: props.name, type: 'single'}.
SingleMatches(docs, name) ==
    {i \in 1..Len(docs) : docs[i].name = name /\ docs[i].type = "single"}

\* saveJob up to the upsert: props, protect and update are built.
SaveStart(s) ==
    /\ savers[s].pc = "idle"
    /\ \E n \in JobNames, at \in SaveRunAts :
         savers' = [savers EXCEPT ![s] =
            [pc |-> "upsert", name |-> n, nextRunAt |-> at,
             protect |-> IF SaveProtects(at, SaveNow) THEN at ELSE NULL,
             setRunAt |-> ~SaveProtects(at, SaveNow), ret |-> 0]]
    /\ UNCHANGED <<retry, coll, clock, store, calls, cfg, proc, ops>>

\* findOneAndUpdate(..., {upsert: true}), query phase.  A matching document
\* is updated with $set; without a match the call goes on to insert.  The
\* collection has no unique index on {name, type} (connect() creates none),
\* so the store does not serialise the query phase with another call's insert.
SaveUpsertQuery(s) ==
    /\ savers[s].pc = "upsert"
    /\ LET m == SingleMatches(coll, savers[s].name) IN
       IF m # {}
       THEN LET i == CHOOSE k \in m : \A l \in m : k <= l IN
            /\ coll' = [coll EXCEPT ![i].nextRunAt =
                          IF savers[s].setRunAt THEN savers[s].nextRunAt ELSE @]
            /\ savers' = [savers EXCEPT ![s].pc = "done", ![s].ret = coll[i].id]
       ELSE /\ coll' = coll
            /\ savers' = [savers EXCEPT ![s].pc = "insert"]
    /\ UNCHANGED <<retry, clock, store, calls, cfg, proc, ops>>

\* findOneAndUpdate(..., {upsert: true}), insert phase: the document is built
\* from the query, $set and $setOnInsert.
SaveUpsertInsert(s) ==
    /\ savers[s].pc = "insert"
    /\ coll' = Append(coll,
                  [id |-> Len(coll) + 1, name |-> savers[s].name, type |-> "single",
                   nextRunAt |-> IF savers[s].setRunAt THEN savers[s].nextRunAt
                                 ELSE savers[s].protect])
    /\ savers' = [savers EXCEPT ![s].pc = "done", ![s].ret = Len(coll) + 1]
    /\ UNCHANGED <<retry, clock, store, calls, cfg, proc, ops>>

SaveInit ==
    /\ coll \in {<<>>, <<[id |-> 1, name |-> "A", type |-> "single", nextRunAt |-> 1]>>,
                 <<[id |-> 1, name |-> "A", type |-> "normal", nextRunAt |-> 1]>>}
    /\ savers = [s \in SaverIds |-> SaverIdle]
    /\ retry = RetryIdle
    /\ clock = SaveNow
    /\ store = <<>>
    /\ calls = <<>>
    /\ cfg = <<>>
    /\ proc = <<>>
    /\ ops = <<>>

SaveNext ==
    \E s \in SaverIds : SaveStart(s) \/ SaveUpsertQuery(s) \/ SaveUpsertInsert(s)

(***************************************************************************)
(* Job Repository: the claim and release operations on the collection      *)
(***************************************************************************)

\* Bounds: the job ids of the collection and the ticks of the clock.
NumJobs == 3
MaxTime == 2
JobIds == 1..NumJobs

\* The clock starts late enough for a lockedAt of 0 to be an expired lock.
ClockStart == MaxTime + 1
ClockEnd == ClockStart + MaxTime

\* A document of the collection.  lockedBy is history: the caller whose write
\* set the current lockedAt (0: none of the callers of the model).
Doc(name, priority, nextRunAt, lockedAt, disabled) ==
    [name |-> name, priority |-> priority, nextRunAt |-> nextRunAt,
     lockedAt |-> lockedAt, disabled |-> disabled, lockedBy |-> 0,
     lastFinishedAt |-> NULL, failCount |-> 0]

\* What a query returns for document j: the document with its _id.
Found(st, j) ==
    [id |-> j, name |-> st[j].name, priority |-> st[j].priority,
     nextRunAt |-> st[j].nextRunAt, lockedAt |-> st[j].lockedAt]

\* JOB_PROCESS_WHERE_QUERY of getNextJobToRun and batchGetNextJobsToRun.
\* A comparison operator of the store matches no null value.
ProcessWhereNoLockCheck(st, j, jobName, nextScanAt, lockDeadline) ==
    /\ st[j].name = jobName
    /\ ~st[j].disabled
    /\ \/ st[j].nextRunAt # NULL /\ st[j].nextRunAt <= nextScanAt
       \/ st[j].lockedAt # NULL /\ st[j].lockedAt <= lockDeadline
ProcessWhere(st, j, jobName, nextScanAt, lockDeadline) ==
    /\ st[j].name = jobName
    /\ ~st[j].disabled
    /\ \/ /\ st[j].lockedAt = NULL
          /\ st[j].nextRunAt # NULL
          /\ st[j].nextRunAt <= nextScanAt
       \/ /\ st[j].lockedAt # NULL
          /\ st[j].lockedAt <= lockDeadline

\* connectOptions.sort = {nextRunAt: 1, priority: -1}; null sorts first, and
\* documents that tie come in _id order.
SortBeforeById(st, a, b) == a < b
SortBefore(st, a, b) ==
    LET ra == st[a].nextRunAt
        rb == st[b].nextRunAt
    IN  \/ ra < rb
        \/ ra = rb /\ st[a].priority > st[b].priority
        \/ ra = rb /\ st[a].priority = st[b].priority /\ a < b

RECURSIVE SortIds(_, _)
SortIds(st, S) ==
    IF S = {} THEN <<>>
    ELSE LET first == CHOOSE a \in S : \A b \in S \ {a} : SortBefore(st, a, b)
         IN  <<first>> \o SortIds(st, S \ {first})

Take(seq, n) == SubSeq(seq, 1, Min(n, Len(seq)))

\* findOneAndUpdate(JOB_PROCESS_WHERE_QUERY, {$set: {lockedAt: now}}, {sort,
\* returnDocument: 'after'}) of getNextJobToRun: one atomic step of the store.
GetNextJobToRun(st, jobName, nextScanAt, lockDeadline, now, who) ==
    LET match == {j \in DOMAIN st : ProcessWhere(st, j, jobName, nextScanAt, lockDeadline)}
    IN  IF match = {}
        THEN [store |-> st, ret |-> <<>>]
        ELSE LET j == SortIds(st, match)[1]
                 st2 == [st EXCEPT ![j].lockedAt = now, ![j].lockedBy = who]
             IN  [store |-> st2, ret |-> <<Found(st2, j)>>]

\* findOneAndUpdate({_id, name, lockedAt: null, disabled: {$ne: true}},
\* {$set: {lockedAt}}) of lockJob: one atomic step of the store.
LockJobNoLockCheck(st, id, jobName, lockedAt, who) ==
    IF id \in DOMAIN st /\ st[id].name = jobName /\ ~st[id].disabled
    THEN LET st2 == [st EXCEPT ![id].lockedAt = lockedAt, ![id].lockedBy = who]
         IN  [store |-> st2, ret |-> <<Found(st2, id)>>]
    ELSE [store |-> st, ret |-> <<>>]
LockJob(st, id, jobName, lockedAt, who) ==
    IF /\ id \in DOMAIN st
       /\ st[id].name = jobName
       /\ st[id].lockedAt = NULL
       /\ ~st[id].disabled
    THEN LET st2 == [st EXCEPT ![id].lockedAt = lockedAt, ![id].lockedBy = who]
         IN  [store |-> st2, ret |-> <<Found(st2, id)>>]
    ELSE [store |-> st, ret |-> <<>>]

\* batchGetNextJobsToRun, phase 1: the aggregation pipeline $match, $sort,
\* $limit; the list of _ids found (availableJobs).
BatchSelect(st, jobName, batchSize, nextScanAt, lockDeadline) ==
    Take(SortIds(st, {j \in DOMAIN st :
                        ProcessWhere(st, j, jobName, nextScanAt, lockDeadline)}),
         batchSize)

\* batchGetNextJobsToRun, phase 2: updateMany({_id: {$in: jobIds}, $or:
\* [{lockedAt: null}, {lockedAt: {$lte: lockDeadline}}]}, {$set: {lockedAt: now}}).
BatchUpdateMatches(st, ids, lockDeadline) ==
    {j \in Range(ids) :
        \/ st[j].lockedAt = NULL
        \/ st[j].lockedAt # NULL /\ st[j].lockedAt <= lockDeadline}

BatchUpdate(st, ids, lockDeadline, now, who) ==
    LET m == BatchUpdateMatches(st, ids, lockDeadline)
    IN  [store |-> [j \in DOMAIN st |->
                      IF j \in m
                      THEN [st[j] EXCEPT !.lockedAt = now, !.lockedBy = who]
                      ELSE st[j]],
         modifiedCount |-> Cardinality(m)]

\* batchGetNextJobsToRun, phase 3: find({_id: {$in: jobIds}, lockedAt: now}),
\* then the documents found in the order of availableJobs.
BatchFind(st, ids, now, who) ==
    LET Locked(j) == st[j].lockedAt = now
        kept == SelectSeq(ids, Locked)
    IN  [i \in 1..Len(kept) |-> Found(st, kept[i])]

\* unlockJob: updateOne({_id, nextRunAt: {$ne: null}}, {$unset: {lockedAt: true}})
UnlockJobResetsRun(st, id) ==
    IF id \in DOMAIN st
    THEN [st EXCEPT ![id].lockedAt = NULL, ![id].lockedBy = 0, ![id].nextRunAt = NULL]
    ELSE st
UnlockJob(st, id) ==
    IF id \in DOMAIN st /\ st[id].nextRunAt # NULL
    THEN [st EXCEPT ![id].lockedAt = NULL, ![id].lockedBy = 0]
    ELSE st

\* unlockJobs: updateMany({_id: {$in: jobIds}, nextRunAt: {$ne: null}}, ...)
UnlockJobsAll(st, ids) ==
    [j \in DOMAIN st |-> [st[j] EXCEPT !.lockedAt = NULL, !.lockedBy = 0]]
UnlockJobs(st, ids) ==
    [j \in DOMAIN st |->
        IF j \in ids /\ st[j].nextRunAt # NULL
        THEN [st[j] EXCEPT !.lockedAt = NULL, !.lockedBy = 0]
        ELSE st[j]]

RetIds(ret) == {ret[i].id : i \in 1..Len(ret)}

(***************************************************************************)
(* RepoSpec: callers of the repository working on one collection           *)
(***************************************************************************)

\* Bounds: the number of concurrent repository calls and the ticks of the
\* clock while they run.
NumCalls == 2
RepoTicks == 1
CallIds == 1..NumCalls
RepoClockEnd == ClockStart + RepoTicks

\* The callers pass nextScanAt = now + processEvery and lockDeadline = now -
\* lockLifetime; the lock lifetime outlasts the run, so a lock written during
\* the run does not expire in it, while a lock of time 0 has expired.  The
\* callers being interchangeable, they enter in the order of their ids.
RepoProcessEvery == 1
RepoLockLifetime == ClockStart
BatchSizes == {2, NumJobs}
LockTargets == {1, 2}

CallIdle == [pc |-> "idle", kind |-> "none", name |-> "A", job |-> 0, batchSize |-> 0,
             now |-> 0, nextScanAt |-> 0, lockDeadline |-> 0, ids |-> <<>>, ret |-> <<>>]

\* The documents a collection may hold at the start: due (the second one
\* possibly earlier than the others) or scheduled at the end of the run, unlocked or left locked at time 0 by a worker that died,
\* enabled or disabled.  The last document may be of the other name.
InitDocs(j) ==
    {Doc(n, j % 2, at, l, d) :
        n \in (IF j = NumJobs THEN JobNames ELSE {"A"}),
        at \in (IF j = NumJobs THEN {ClockStart - 1, RepoClockEnd + RepoProcessEvery}
                ELSE IF j = 2 THEN {ClockStart - 2, ClockStart - 1}
                ELSE {ClockStart - 1}),
        l \in (IF j = 1 THEN {NULL, 0} ELSE {NULL}),
        d \in (IF j = 2 THEN BOOLEAN ELSE {FALSE})}

RepoInit ==
    /\ store \in {st \in [JobIds -> UNION {InitDocs(j) : j \in JobIds}] :
                    \A j \in JobIds : st[j] \in InitDocs(j)}
    /\ clock = ClockStart
    /\ calls = [c \in CallIds |-> CallIdle]
    /\ retry = RetryIdle
    /\ coll = <<>>
    /\ savers = <<>>
    /\ cfg = <<>>
    /\ proc = <<>>
    /\ ops = <<>>

\* A caller enters lockJob, getNextJobToRun or batchGetNextJobsToRun: the
\* arguments are fixed and new Date() is read.
RepoIssue(c) ==
    /\ calls[c].pc = "idle"
    /\ \A d \in CallIds : d < c => calls[d].pc # "idle"
    /\ \E kind \in {"lockJob", "claimNext", "batch"}, n \in JobNames, j \in LockTargets,
          size \in BatchSizes :
         /\ kind = "lockJob" => n = store[j].name /\ size = 2
         /\ kind = "claimNext" => j = 1 /\ size = 2
         /\ kind = "batch" => j = 1 /\ n = "A"
         /\ calls' = [calls EXCEPT ![c] =
               [pc |-> "issued", kind |-> kind, name |-> n,
                job |-> IF kind = "lockJob" THEN j ELSE 0,
                batchSize |-> IF kind = "batch" THEN size ELSE 0,
                now |-> clock, nextScanAt |-> clock + RepoProcessEvery,
                lockDeadline |-> clock - RepoLockLifetime, ids |-> <<>>, ret |-> <<>>]]
    /\ UNCHANGED <<retry, coll, savers, clock, store, cfg, proc, ops>>

RepoLockJob(c) ==
    /\ calls[c].pc = "issued" /\ calls[c].kind = "lockJob"
    /\ LET r == LockJob(store, calls[c].job, calls[c].name, calls[c].now, c) IN
       /\ store' = r.store
       /\ calls' = [calls EXCEPT ![c].pc = "done", ![c].ret = r.ret]
    /\ UNCHANGED <<retry, coll, savers, clock, cfg, proc, ops>>

RepoClaimNext(c) ==
    /\ calls[c].pc = "issued" /\ calls[c].kind = "claimNext"
    /\ LET r == GetNextJobToRun(store, calls[c].name, calls[c].nextScanAt,
                                calls[c].lockDeadline, calls[c].now, c) IN
       /\ store' = r.store
       /\ calls' = [calls EXCEPT ![c].pc = "done", ![c].ret = r.ret]
    /\ UNCHANGED <<retry, coll, savers, clock, cfg, proc, ops>>

\* if (availableJobs.length === 0) return [];
RepoBatchSelect(c) ==
    /\ calls[c].pc = "issued" /\ calls[c].kind = "batch"
    /\ LET ids == BatchSelect(store, calls[c].name, calls[c].batchSize,
                              calls[c].nextScanAt, calls[c].lockDeadline) IN
       calls' = [calls EXCEPT ![c].pc = IF ids = <<>> THEN "done" ELSE "selected",
                              ![c].ids = ids]
    /\ UNCHANGED <<retry, coll, savers, clock, store, cfg, proc, ops>>

\* if (updateResult.modifiedCount > 0) { find } else return [];
RepoBatchUpdate(c) ==
    /\ calls[c].pc = "selected"
    /\ LET r == BatchUpdate(store, calls[c].ids, calls[c].lockDeadline, calls[c].now, c) IN
       /\ store' = r.store
       /\ calls' = [calls EXCEPT ![c].pc = IF r.modifiedCount > 0 THEN "updated" ELSE "done"]
    /\ UNCHANGED <<retry, coll, savers, clock, cfg, proc, ops>>

RepoBatchFind(c) ==
    /\ calls[c].pc = "updated"
    /\ calls' = [calls EXCEPT ![c].pc = "done",
                   ![c].ret = BatchFind(store, calls[c].ids, calls[c].now, c)]
    /\ UNCHANGED <<retry, coll, savers, clock, store, cfg, proc, ops>>

RepoTick ==
    /\ clock < RepoClockEnd
    /\ clock' = clock + 1
    /\ UNCHANGED <<retry, coll, savers, store, calls, cfg, proc, ops>>

RepoNext ==
    \/ RepoTick
    \/ \E c \in CallIds :
         \/ RepoIssue(c)
         \/ RepoLockJob(c)
         \/ RepoClaimNext(c)
         \/ RepoBatchSelect(c)
         \/ RepoBatchUpdate(c)
         \/ RepoBatchFind(c)

(***************************************************************************)
(* TripSpec: one caller claims and then releases what it claimed           *)
(***************************************************************************)

TripIdle == [pc |-> "idle", kind |-> "none", name |-> "A", job |-> 0, batchSize |-> 0,
             now |-> 0, nextScanAt |-> 0, lockDeadline |-> 0, ids |-> <<>>, ret |-> <<>>,
             before |-> <<>>]

\* The documents at the start: the first may be in a run (nextRunAt null),
\* the first two may carry the expired lock of a worker that died, the
\* second may be disabled, the last may be of the other name or scheduled
\* after the scan horizon.
TripDocs(j) ==
    {Doc(n, j % 2, at, l, d) :
        n \in (IF j = NumJobs THEN JobNames ELSE {"A"}),
        at \in (IF j = NumJobs THEN {ClockStart - 1, ClockStart + 1 + RepoProcessEvery}
                ELSE IF j = 1 THEN {NULL, ClockStart - 1}
                ELSE {ClockStart - 1}),
        l \in (IF j = NumJobs THEN {NULL} ELSE {NULL, 0}),
        d \in (IF j = 2 THEN BOOLEAN ELSE {FALSE})}

TripInit ==
    /\ store \in {st \in [JobIds -> UNION {TripDocs(j) : j \in JobIds}] :
                    \A j \in JobIds : st[j] \in TripDocs(j)}
    /\ clock = ClockStart
    /\ calls = TripIdle
    /\ retry = RetryIdle
    /\ coll = <<>>
    /\ savers = <<>>
    /\ cfg = <<>>
    /\ proc = <<>>
    /\ ops = <<>>

TripOther == <<retry, coll, savers, cfg, proc, ops>>

\* The caller enters lockJob, getNextJobToRun or batchGetNextJobsToRun; the
\* collection as it is before the claim is remembered.
TripIssue(kind, n, j, size) ==
    /\ calls.pc = "idle"
    /\ kind = "lockJob" => n = store[j].name /\ size = 2
    /\ kind = "claimNext" => j = 1 /\ size = 2
    /\ kind = "batch" => j = 1
    /\ calls' = [TripIdle EXCEPT !.pc = "issued", !.kind = kind, !.name = n,
                   !.job = IF kind = "lockJob" THEN j ELSE 0,
                   !.batchSize = IF kind = "batch" THEN size ELSE 0,
                   !.now = clock, !.nextScanAt = clock + RepoProcessEvery,
                   !.lockDeadline = clock - RepoLockLifetime, !.before = store]
    /\ UNCHANGED <<clock, store, TripOther>>

TripLockJob ==
    /\ calls.pc = "issued" /\ calls.kind = "lockJob"
    /\ LET r == LockJob(store, calls.job, calls.name, calls.now, 1) IN
       /\ store' = r.store
       /\ calls' = [calls EXCEPT !.pc = "done", !.ret = r.ret]
    /\ UNCHANGED <<clock, TripOther>>

TripClaimNext ==
    /\ calls.pc = "issued" /\ calls.kind = "claimNext"
    /\ LET r == GetNextJobToRun(store, calls.name, calls.nextScanAt,
                                calls.lockDeadline, calls.now, 1) IN
       /\ store' = r.store
       /\ calls' = [calls EXCEPT !.pc = "done", !.ret = r.ret]
    /\ UNCHANGED <<clock, TripOther>>

TripBatchSelect ==
    /\ calls.pc = "issued" /\ calls.kind = "batch"
    /\ LET ids == BatchSelect(store, calls.name, calls.batchSize,
                              calls.nextScanAt, calls.lockDeadline) IN
       calls' = [calls EXCEPT !.pc = IF ids = <<>> THEN "done" ELSE "selected",
                              !.ids = ids]
    /\ UNCHANGED <<clock, store, TripOther>>

TripBatchUpdate ==
    /\ calls.pc = "selected"
    /\ LET r == BatchUpdate(store, calls.ids, calls.lockDeadline, calls.now, 1) IN
       /\ store' = r.store
       /\ calls' = [calls EXCEPT !.pc = IF r.modifiedCount > 0 THEN "updated" ELSE "done"]
    /\ UNCHANGED <<clock, TripOther>>

TripBatchFind ==
    /\ calls.pc = "updated"
    /\ calls' = [calls EXCEPT !.pc = "done",
                   !.ret = BatchFind(store, calls.ids, calls.now, 1)]
    /\ UNCHANGED <<clock, store, TripOther>>

\* unlockJob(job) for the job that lockJob or getNextJobToRun returned.
TripRelease ==
    /\ calls.pc = "done" /\ calls.kind \in {"lockJob", "claimNext"}
    /\ calls.ret # <<>>
    /\ store' = UnlockJob(store, calls.ret[1].id)
    /\ calls' = [calls EXCEPT !.pc = "released"]
    /\ UNCHANGED <<clock, TripOther>>

\* unlockJobs(ids) for the ids of the jobs that the batch returned.
TripReleaseMany ==
    /\ calls.pc = "done" /\ calls.kind = "batch"
    /\ store' = UnlockJobs(store, RetIds(calls.ret))
    /\ calls' = [calls EXCEPT !.pc = "released"]
    /\ UNCHANGED <<clock, TripOther>>

\* The next round trip, a time unit later.
TripAgain ==
    /\ calls.pc = "released" \/ (calls.pc = "done" /\ calls.ret = <<>>)
    /\ clock < ClockEnd
    /\ clock' = clock + 1
    /\ calls' = TripIdle
    /\ UNCHANGED <<store, TripOther>>

TripNext ==
    \/ \E kind \in {"lockJob", "claimNext", "batch"}, n \in JobNames, j \in LockTargets,
          size \in BatchSizes : TripIssue(kind, n, j, size)
    \/ TripLockJob
    \/ TripClaimNext
    \/ TripBatchSelect
    \/ TripBatchUpdate
    \/ TripBatchFind
    \/ TripRelease
    \/ TripReleaseMany
    \/ TripAgain

TripSpec == TripInit /\ [][TripNext]_vars

(***************************************************************************)
(* StateSpec: saveJobState                                                  *)
(***************************************************************************)

\* saveJobState(job): updateOne({_id: id, name: job.attrs.name}, {$set}) with
\* the execution fields of the job; throws when matchedCount is not 1.
SaveJobStateById(st, id, name, attrs) ==
    IF id \in DOMAIN st
    THEN [store |-> [st EXCEPT ![id].lockedAt = attrs.lockedAt,
                               ![id].lockedBy = IF attrs.lockedAt = NULL THEN 0 ELSE 1,
                               ![id].nextRunAt = attrs.nextRunAt,
                               ![id].lastFinishedAt = attrs.lastFinishedAt,
                               ![id].failCount = attrs.failCount],
          error |-> FALSE]
    ELSE [store |-> st, error |-> TRUE]
SaveJobState(st, id, name, attrs) ==
    IF id \in DOMAIN st /\ st[id].name = name
    THEN [store |-> [st EXCEPT ![id].lockedAt = attrs.lockedAt,
                               ![id].lockedBy = IF attrs.lockedAt = NULL THEN 0 ELSE 1,
                               ![id].nextRunAt = attrs.nextRunAt,
                               ![id].lastFinishedAt = attrs.lastFinishedAt,
                               ![id].failCount = attrs.failCount],
          error |-> FALSE]
    ELSE [store |-> st, error |-> TRUE]

\* The execution fields a job handle may carry when its state is saved.
StateAttrs ==
    [lockedAt : {NULL, ClockStart}, nextRunAt : {NULL, ClockStart + 1},
     lastFinishedAt : {NULL, ClockStart}, failCount : {0, 1}]

\* The ids of the job handles: those of the collection and one whose record
\* has been removed.
StateIds == 1..(NumJobs + 1)

StateIdle == [pc |-> "idle", job |-> 0, name |-> "A", error |-> FALSE, before |-> <<>>]

StateInit ==
    /\ store \in {st \in [JobIds -> UNION {TripDocs(j) : j \in JobIds}] :
                    \A j \in JobIds : st[j] \in TripDocs(j)}
    /\ clock = ClockStart
    /\ calls = StateIdle
    /\ retry = RetryIdle
    /\ coll = <<>>
    /\ savers = <<>>
    /\ cfg = <<>>
    /\ proc = <<>>
    /\ ops = <<>>

StateSave(id, name, attrs) ==
    /\ calls.pc = "idle"
    /\ LET r == SaveJobState(store, id, name, attrs) IN
       /\ store' = r.store
       /\ calls' = [pc |-> "saved", job |-> id, name |-> name, error |-> r.error,
                    before |-> store]
    /\ UNCHANGED <<clock, retry, coll, savers, cfg, proc, ops>>

\* The next call, a time unit later.
StateAgain ==
    /\ calls.pc = "saved"
    /\ clock < ClockStart + 1
    /\ clock' = clock + 1
    /\ calls' = StateIdle
    /\ UNCHANGED <<store, retry, coll, savers, cfg, proc, ops>>

StateNext ==
    \/ \E id \in StateIds, name \in JobNames, attrs \in StateAttrs :
          StateSave(id, name, attrs)
    \/ StateAgain

StateSpec == StateInit /\ [][StateNext]_vars

(***************************************************************************)
(* Local Ready Queue: JobProcessingQueue                                   *)
(***************************************************************************)

\* constructor(agenda, maxQueueSize = 10000)
MaxQueueSize == 10000

\* A Job object of a worker: the attrs of the record it was built from and
\* the gotTimerToExecute flag.
JobOf(found) ==
    [id |-> found.id, name |-> found.name, priority |-> found.priority,
     nextRunAt |-> found.nextRunAt, lockedAt |-> found.lockedAt, timer |-> FALSE]

NoJob == JobOf([id |-> 0, name |-> "A", priority |-> 0, nextRunAt |-> NULL, lockedAt |-> NULL])

\* The test of insert's findIndex: element goes before job in run order.
InsertStopsAt(element, job) ==
    /\ element.nextRunAt # NULL
    /\ job.nextRunAt # NULL
    /\ element.nextRunAt <= job.nextRunAt
    /\ (element.nextRunAt = job.nextRunAt => element.priority >= job.priority)

\* The details of a queueOverflow event.
Overflow(job, queue, maxQueueSize) ==
    [jobName |-> job.name, queueSize |-> Len(queue), maxSize |-> maxQueueSize]

\* insert(job) of a queue constructed with maxQueueSize: false and a
\* queueOverflow event when the queue is full; else the job goes in front of
\* the first element that stops the search, or to the left end.
QueueInsertCapLate(queue, job, maxQueueSize) ==
    IF Len(queue) > maxQueueSize
    THEN [queue |-> queue, inserted |-> FALSE,
          emit |-> <<Overflow(job, queue, maxQueueSize)>>]
    ELSE LET hits == {i \in 1..Len(queue) : InsertStopsAt(queue[i], job)}
         IN  IF hits = {}
             THEN [queue |-> <<job>> \o queue, inserted |-> TRUE, emit |-> <<>>]
             ELSE LET k == CHOOSE i \in hits : \A h \in hits : i <= h
                  IN  [queue |-> SubSeq(queue, 1, k - 1) \o <<job>>
                                    \o SubSeq(queue, k, Len(queue)),
                       inserted |-> TRUE, emit |-> <<>>]
QueueInsertCap(queue, job, maxQueueSize) ==
    IF Len(queue) >= maxQueueSize
    THEN [queue |-> queue, inserted |-> FALSE,
          emit |-> <<Overflow(job, queue, maxQueueSize)>>]
    ELSE LET hits == {i \in 1..Len(queue) : InsertStopsAt(queue[i], job)}
         IN  IF hits = {}
             THEN [queue |-> <<job>> \o queue, inserted |-> TRUE, emit |-> <<>>]
             ELSE LET k == CHOOSE i \in hits : \A h \in hits : i <= h
                  IN  [queue |-> SubSeq(queue, 1, k - 1) \o <<job>>
                                    \o SubSeq(queue, k, Len(queue)),
                       inserted |-> TRUE, emit |-> <<>>]

\* pop(): the last element leaves the queue.
QueuePop(queue) == SubSeq(queue, 1, Len(queue) - 1)

RemoveAt(seq, k) == SubSeq(seq, 1, k - 1) \o SubSeq(seq, k + 1, Len(seq))

FirstIndex(S) == CHOOSE i \in S : \A h \in S : i <= h

\* remove(job): by identity, then by id; throws when the job is not found.
QueueRemove(queue, job) ==
    LET same == {i \in 1..Len(queue) : queue[i] = job}
        byId == {i \in 1..Len(queue) : queue[i].id = job.id}
    IN  IF same # {} THEN RemoveAt(queue, FirstIndex(same))
        ELSE IF byId # {} THEN RemoveAt(queue, FirstIndex(byId))
        ELSE queue

(***************************************************************************)
(* Job Processor: configuration and bookkeeping                            *)
(***************************************************************************)

\* Bound: the number of workers sharing the collection.
NumWorkers == 2
Workers == 1..NumWorkers

\* this.agenda.attrs.batchSize || 5
DefaultBatchSize == 5

\* A job definition: {concurrency, lockLimit, lockLifetime}.
Def(concurrency, lockLimit, lockLifetime) ==
    [concurrency |-> concurrency, lockLimit |-> lockLimit, lockLifetime |-> lockLifetime]

\* What the last run that settled left behind: the error of the race
\* ("none", "rejected" for job.run(), "lockLifetime" for the watchdog,
\* "alreadyComplete" for a job that is not running any more), job.cancel(error)
\* called, the number of error signals emitted, an error thrown out of
\* runOrRetry.
NoSettle ==
    [id |-> 0, error |-> "none", canceled |-> FALSE, errors |-> 0, thrown |-> FALSE]

\* The fields of a new JobProcessor.  The arrays hold the ids of their Job
\* objects; a map is the set of its keys.  runs, immediates and timers are the
\* handlers (job.run() racing the watchdog), the setImmediate callbacks and
\* the setTimeout callbacks that are pending; timers is the bag of the times
\* at which the pending setTimeout callbacks are due.
\* The record of the last job runOrRetry put back for later: its id, and a
\* flag that changes with every such call.
NoRetry == [id |-> 0, flip |-> FALSE]

NewProcessor(now) ==
    [isRunning |-> TRUE,
     nextScanAt |-> now,
     jobStatus |-> [n \in JobNames |-> [has |-> FALSE, locked |-> 0, running |-> 0]],
     jobQueue |-> <<>>,
     runningJobs |-> <<>>, runningJobsMap |-> {},
     lockedJobs |-> <<>>, lockedJobsMap |-> {},
     jobsToLock |-> <<>>, jobsToLockMap |-> {},
     isLockingOnTheFly |-> FALSE,
     isJobQueueFilling |-> {},
     runs |-> <<>>,
     immediates |-> {},
     timers |-> EmptyBag,
     unlocks |-> {},
     notEnqueued |-> {},
     extraCalls |-> 0,
     stopReturned |-> <<>>,
     afterStop |-> {},
     lastSettle |-> NoSettle,
     fillErrors |-> {},
     lastRetry |-> NoRetry]

\* updateStatus(name, key, number): creates the status of the name if needed.
UpdateStatus(p, name, key, number) ==
    LET s == p.jobStatus[name] IN
    [p EXCEPT !.jobStatus[name] =
        [has |-> TRUE,
         locked |-> IF key = "locked" THEN s.locked + number ELSE s.locked,
         running |-> IF key = "running" THEN s.running + number ELSE s.running]]

\* shouldLock(name)
ShouldLockAlways(p, name) == TRUE
ShouldLock(p, name) ==
    /\ ~ (cfg.totalLockLimit # 0 /\ Len(p.lockedJobs) >= cfg.totalLockLimit)
    /\ ~ (/\ cfg.defs[name].lockLimit # 0
          /\ p.jobStatus[name].has
          /\ p.jobStatus[name].locked >= cfg.defs[name].lockLimit)

\* calculateAvailableSlots(jobName); Number.MAX_SAFE_INTEGER is any number
\* above every batch size.
Unlimited == DefaultBatchSize + 1
CalculateAvailableSlots(p, name) ==
    LET globalAvailable ==
            IF cfg.totalLockLimit > 0
            THEN Max(0, cfg.totalLockLimit - Len(p.lockedJobs))
            ELSE Unlimited
        jobSpecificAvailable ==
            IF cfg.defs[name].lockLimit > 0 /\ p.jobStatus[name].has
            THEN Max(0, cfg.defs[name].lockLimit - p.jobStatus[name].locked)
            ELSE Unlimited
    IN  Min(globalAvailable, jobSpecificAvailable)

IndexOfId(seq, id) ==
    LET hits == {i \in 1..Len(seq) : seq[i] = id}
    IN  IF hits = {} THEN 0 ELSE FirstIndex(hits)

\* addRunningJob / removeRunningJob
AddRunningJob(p, job) ==
    IF job.id \notin p.runningJobsMap
    THEN [p EXCEPT !.runningJobs = Append(@, job.id), !.runningJobsMap = @ \cup {job.id}]
    ELSE p

RemoveRunningJob(p, job) ==
    IF job.id \in p.runningJobsMap
    THEN [p EXCEPT !.runningJobsMap = @ \ {job.id},
                   !.runningJobs = IF IndexOfId(@, job.id) = 0 THEN @
                                   ELSE RemoveAt(@, IndexOfId(@, job.id))]
    ELSE p

\* addLockedJob / removeLockedJob
AddLockedJob(p, job) ==
    IF job.id \notin p.lockedJobsMap
    THEN [p EXCEPT !.lockedJobs = Append(@, job.id), !.lockedJobsMap = @ \cup {job.id}]
    ELSE p

RemoveLockedJob(p, job) ==
    IF job.id \in p.lockedJobsMap
    THEN [p EXCEPT !.lockedJobsMap = @ \ {job.id},
                   !.lockedJobs = IF IndexOfId(@, job.id) = 0 THEN @
                                  ELSE RemoveAt(@, IndexOfId(@, job.id))]
    ELSE p

\* addJobToLock: the array holds the Job objects waiting for lockOnTheFly.
AddJobToLock(p, job) ==
    IF job.id \notin p.jobsToLockMap
    THEN [p EXCEPT !.jobsToLock = Append(@, job), !.jobsToLockMap = @ \cup {job.id}]
    ELSE p

\* enqueueJob(job): the result of insert is logged when false and returned,
\* and its callers drop it.  notEnqueued is the record of the failed inserts.
EnqueueJob(p, job) ==
    LET r == QueueInsertCap(p.jobQueue, job, cfg.maxQueueSize) IN
    [p EXCEPT !.jobQueue = r.queue,
              !.notEnqueued = IF r.inserted THEN @ ELSE @ \cup {job.id}]

(***************************************************************************)
(* Job Processor: dispatch                                                 *)
(***************************************************************************)

\* Job.isExpired(): the in-memory lock is absent or at least lockLifetime old.
IsExpired(job, now) ==
    \/ job.lockedAt = NULL
    \/ job.lockedAt <= now - cfg.defs[job.name].lockLifetime

\* returnNextConcurrencyFreeJob(jobStatus, handledJobs): the index of the
\* rightmost queue element that is not handled and not blocked by the
\* concurrency of its name; 0 when there is none.
ConcurrencyFree(p, job) ==
    \/ ~ p.jobStatus[job.name].has
    \/ cfg.defs[job.name].concurrency = 0
    \/ p.jobStatus[job.name].running < cfg.defs[job.name].concurrency

ReturnNextConcurrencyFreeJobLeft(p, handledJobs) ==
    LET free == {i \in 1..Len(p.jobQueue) :
                    /\ p.jobQueue[i].name \in DOMAIN cfg.defs
                    /\ p.jobQueue[i].id \notin handledJobs
                    /\ ConcurrencyFree(p, p.jobQueue[i])}
    IN  IF free = {} THEN 0 ELSE CHOOSE i \in free : \A h \in free : i <= h
ReturnNextConcurrencyFreeJob(p, handledJobs) ==
    LET free == {i \in 1..Len(p.jobQueue) :
                    /\ p.jobQueue[i].name \in DOMAIN cfg.defs
                    /\ p.jobQueue[i].id \notin handledJobs
                    /\ ConcurrencyFree(p, p.jobQueue[i])}
    IN  IF free = {} THEN 0 ELSE CHOOSE i \in free : \A h \in free : h <= i

\* The guard of runOrRetry: below the concurrency of the name and below
\* maxConcurrency.
MayRunNoCeiling(p, job) == TRUE
MayRun(p, job) ==
    /\ \/ cfg.defs[job.name].concurrency = 0
       \/ ~ p.jobStatus[job.name].has
       \/ p.jobStatus[job.name].running < cfg.defs[job.name].concurrency
    /\ Len(p.runningJobs) < cfg.maxConcurrency

\* runOrRetry(job), were it to forget the job it cannot run now.
RunOrRetryDrops(p, job) ==
    IF ~ p.isRunning THEN p
    ELSE IF MayRun(p, job)
    THEN [UpdateStatus(AddRunningJob(p, job), job.name, "running", 1)
            EXCEPT !.runs = Append(@, job)]
    ELSE [p EXCEPT !.lastRetry = [id |-> job.id, flip |-> ~ @.flip]]

\* runOrRetry(job) up to its await: the handler starts, or the job goes back
\* to the queue; a stopped worker drops the job.
RunOrRetry(p, job) ==
    IF ~ p.isRunning THEN p
    ELSE IF MayRun(p, job)
    THEN [UpdateStatus(AddRunningJob(p, job), job.name, "running", 1)
            EXCEPT !.runs = Append(@, job)]
    ELSE [EnqueueJob(p, job) EXCEPT !.lastRetry = [id |-> job.id, flip |-> ~ @.flip]]

\* jobProcessing(handledJobs) up to `await job.isExpired()`: the job picked
\* and taken out of the queue (picked = FALSE when the call returns early).
JobProcessingPick(p, handledJobs) ==
    LET k == IF Len(p.jobQueue) = 0 THEN 0
             ELSE ReturnNextConcurrencyFreeJob(p, handledJobs)
    IN  IF k = 0
        THEN [p |-> p, picked |-> FALSE, job |-> NoJob]
        ELSE [p |-> [p EXCEPT !.jobQueue = QueueRemove(@, p.jobQueue[k])],
              picked |-> TRUE, job |-> p.jobQueue[k]]

\* The branch of jobProcessing for a job that is not expired and not due,
\* were it to call setTimeout whatever gotTimerToExecute says.
JobProcessingNotDueRearm(p, job, now) ==
    IF job.nextRunAt - now > cfg.processEvery
    THEN UpdateStatus(RemoveLockedJob(p, job), job.name, "locked", -1)
    ELSE LET timed == [job EXCEPT !.timer = TRUE] IN
         [p EXCEPT !.jobQueue = QueueInsertCap(@, timed, cfg.maxQueueSize).queue,
                   !.timers = @ (+) SetToBag({job.nextRunAt})]

\* The branch of jobProcessing for a job that is not expired and not due.
JobProcessingNotDue(p, job, now) ==
    IF job.nextRunAt - now > cfg.processEvery
    THEN \* too far away: dropped from the locked jobs of this worker
         UpdateStatus(RemoveLockedJob(p, job), job.name, "locked", -1)
    ELSE LET timed == [job EXCEPT !.timer = TRUE] IN
         [p EXCEPT !.jobQueue = QueueInsertCap(@, timed, cfg.maxQueueSize).queue,
                   !.timers = IF job.timer THEN @ ELSE @ (+) SetToBag({job.nextRunAt})]

\* jobProcessing after the pick, were it to run every job that has not
\* expired, due or not.
JobProcessingRestAlwaysDue(p, pick, handledJobs, now) ==
    IF ~ pick.picked THEN p
    ELSE LET job == pick.job
             p1 == IF IsExpired(job, now) THEN p ELSE RunOrRetry(p, job)
         IN  IF 1 < cfg.maxConcurrency
             THEN [p1 EXCEPT !.immediates = @ \cup {handledJobs \cup {job.id}}]
             ELSE p1

\* jobProcessing after the pick: run, drop, or wait for the timer; then the
\* job is handled and the next call is scheduled with setImmediate.  While
\* one call is between its first and last line localQueueProcessing is 1.
JobProcessingRest(p, pick, handledJobs, now) ==
    IF ~ pick.picked THEN p
    ELSE LET job == pick.job
             tooFarThrows == /\ ~ IsExpired(job, now)
                             /\ job.nextRunAt # NULL /\ job.nextRunAt > now
                             /\ job.nextRunAt - now > cfg.processEvery
                             /\ job.id \notin p.lockedJobsMap
             p1 == IF IsExpired(job, now) THEN p
                   ELSE IF job.nextRunAt = NULL \/ job.nextRunAt <= now
                   THEN RunOrRetry(p, job)
                   ELSE JobProcessingNotDue(p, job, now)
         IN  IF tooFarThrows THEN p
             ELSE IF 1 < cfg.maxConcurrency
             THEN [p1 EXCEPT !.immediates = @ \cup {handledJobs \cup {job.id}}]
             ELSE p1

\* jobProcessing(handledJobs), one whole call.
JobProcessing(p, handledJobs, now) ==
    JobProcessingRest(JobProcessingPick(p, handledJobs).p,
                      JobProcessingPick(p, handledJobs), handledJobs, now)

(***************************************************************************)
(* Job Processor: discovery pass and lock-on-the-fly                       *)
(***************************************************************************)

\* A claim call of a discovery pass on its way through the store.
\*   pc: idle (no pass), issued, selected, updated (the phases of the batch
\*   call done so far), ready (the reply is on its way to the worker), failed
\*   (the call threw and the error is on its way to the worker), ended
\*   (the pass of this name is over, process() waits for the other names).
FillIdle ==
    [pc |-> "idle", kind |-> "single", batchSize |-> 0, nextScanAt |-> 0,
     lockDeadline |-> 0, now |-> 0, ids |-> <<>>, ret |-> <<>>]
FillEnded == [FillIdle EXCEPT !.pc = "ended"]

\* The lockJob call of lockOnTheFly on its way through the store.
FlyIdle == [pc |-> "idle", id |-> 0, name |-> "A", lockedAt |-> 0, ret |-> <<>>]

\* findAndLockNextJobs / findAndLockNextJob up to the await: the call issued.
FindAndLockNextJobs(p, name, now) ==
    LET availableSlots == CalculateAvailableSlots(p, name)
        batchSize == Min(IF cfg.batchSize # 0 THEN cfg.batchSize ELSE DefaultBatchSize,
                         availableSlots)
    IN  [pc |-> "issued",
         kind |-> IF cfg.enableBatchProcessing /\ batchSize > 1 THEN "batch" ELSE "single",
         batchSize |-> IF cfg.enableBatchProcessing /\ batchSize > 1 THEN batchSize ELSE 0,
         nextScanAt |-> p.nextScanAt,
         lockDeadline |-> now - cfg.defs[name].lockLifetime,
         now |-> now, ids |-> <<>>, ret |-> <<>>]

\* jobQueueFilling(name) up to its await.
JobQueueFillingStart(p, name, now) ==
    LET p0 == [p EXCEPT !.isJobQueueFilling = @ \cup {name}] IN
    IF ~ ShouldLock(p0, name)
    THEN [p |-> [UpdateStatus(p0, name, "lockLimitReached", 1)
                    EXCEPT !.isJobQueueFilling = @ \ {name}],
          op |-> FillEnded]
    ELSE LET p1 == [p0 EXCEPT !.nextScanAt = now + cfg.processEvery]
         IN  [p |-> p1, op |-> FindAndLockNextJobs(p1, name, now)]

\* The loop of jobQueueFilling over the jobs claimed, from the i-th on.
RECURSIVE FillLoop(_, _, _, _)
FillLoop(p, name, jobs, i) ==
    IF i > Len(jobs) THEN [p |-> p, stopped |-> FALSE]
    ELSE IF ~ ShouldLock(p, name)
    THEN [p |-> [UpdateStatus(p, name, "lockLimitReached", 1)
                    EXCEPT !.unlocks = @ \cup {jobs[i].id}],
          stopped |-> TRUE]
    ELSE FillLoop(EnqueueJob(AddLockedJob(UpdateStatus(p, name, "locked", 1),
                                          JobOf(jobs[i])),
                             JobOf(jobs[i])),
                  name, jobs, i + 1)

\* jobQueueFilling(name) from the reply of the store on, were it to end
\* after the first reply.
JobQueueFillingReplyOnce(p, name, jobs, now) ==
    LET loop == FillLoop(p, name, jobs, 1) IN
    [p |-> [loop.p EXCEPT !.isJobQueueFilling = @ \ {name}], op |-> FillEnded]

\* jobQueueFilling(name) from the reply of the store on.
JobQueueFillingReply(p, name, jobs, now) ==
    LET loop == FillLoop(p, name, jobs, 1) IN
    IF Len(jobs) > 0 /\ ~ loop.stopped /\ ShouldLock(loop.p, name)
    THEN JobQueueFillingStart(loop.p, name, now)
    ELSE [p |-> [loop.p EXCEPT !.isJobQueueFilling = @ \ {name}], op |-> FillEnded]

\* The catch and finally blocks of jobQueueFilling(name) after the claim call
\* threw: the error is emitted and the pass of the name is over.  fillErrors
\* is the record of the names whose pass emitted an error.
JobQueueFillingErrorSilent(p, name) ==
    [p |-> [p EXCEPT !.isJobQueueFilling = @ \ {name}], op |-> FillEnded]

JobQueueFillingError(p, name) ==
    [p |-> [p EXCEPT !.isJobQueueFilling = @ \ {name},
                     !.fillErrors = @ \cup {name}],
     op |-> FillEnded]

\* Object.keys(this.agenda.definitions)
NameOrder == IF "B" \in DOMAIN cfg.defs THEN <<"A", "B">> ELSE <<"A">>

\* process(): jobQueueFilling of every name, each up to its await.
RECURSIVE StartAllFrom(_, _, _, _)
StartAllFrom(p, fill, i, now) ==
    IF i > Len(NameOrder) THEN [p |-> p, fill |-> fill]
    ELSE LET st == JobQueueFillingStart(p, NameOrder[i], now)
         IN  StartAllFrom(st.p, [fill EXCEPT ![NameOrder[i]] = st.op], i + 1, now)

\* The end of process(): when the pass of every name is over, jobProcessing().
ProcessEnd(p, fill, now) ==
    IF \A n \in DOMAIN cfg.defs : fill[n].pc = "ended"
    THEN [p |-> JobProcessing(p, {}, now), fill |-> [n \in JobNames |-> FillIdle]]
    ELSE [p |-> p, fill |-> fill]

\* lockOnTheFly() up to its await.
LockOnTheFly(p, now) ==
    IF p.isLockingOnTheFly \/ Len(p.jobsToLock) = 0
    THEN [p |-> p, op |-> FlyIdle]
    ELSE LET job == p.jobsToLock[Len(p.jobsToLock)]
             p1 == [p EXCEPT !.jobsToLock = SubSeq(@, 1, Len(@) - 1)]
         IN  IF job.name \in p1.isJobQueueFilling
             THEN [p |-> p1, op |-> FlyIdle]
             ELSE IF ~ ShouldLock(p1, job.name)
             THEN [p |-> [UpdateStatus(p1, job.name, "lockLimitReached", 1)
                            EXCEPT !.jobsToLock = <<>>],
                   op |-> FlyIdle]
             ELSE [p |-> [p1 EXCEPT !.isLockingOnTheFly = TRUE],
                   op |-> [pc |-> "issued", id |-> job.id, name |-> job.name,
                           lockedAt |-> now, ret |-> <<>>]]

\* lockOnTheFly() from the reply of the store on, with the call of
\* jobProcessing() it makes and the next lockOnTheFly() it awaits.
LockOnTheFlyReply(p, ret, now) ==
    IF Len(ret) = 0
    THEN LockOnTheFly([p EXCEPT !.isLockingOnTheFly = FALSE], now)
    ELSE LET job == JobOf(ret[1]) IN
         IF ~ ShouldLock(p, job.name)
         THEN [p |-> [UpdateStatus(p, job.name, "lockLimitReached", 1)
                        EXCEPT !.unlocks = @ \cup {job.id},
                               !.jobsToLock = <<>>,
                               !.isLockingOnTheFly = FALSE],
               op |-> FlyIdle]
         ELSE LET p1 == EnqueueJob(AddLockedJob(UpdateStatus(p, job.name, "locked", 1), job), job)
                  pick == JobProcessingPick(p1, {})
                  next == LockOnTheFly([pick.p EXCEPT !.isLockingOnTheFly = FALSE], now)
              IN  [p |-> JobProcessingRest(next.p, pick, {}, now), op |-> next.op]

\* The finally block of runOrRetry and the setImmediate after it; a job
\* missing from running or from locked throws, and the rest is skipped.
RunFinally(p, job) ==
    IF job.id \notin p.runningJobsMap THEN [p EXCEPT !.lastSettle.thrown = TRUE]
    ELSE LET p1 == UpdateStatus(RemoveRunningJob(p, job), job.name, "running", -1) IN
         IF job.id \notin p1.lockedJobsMap THEN [p1 EXCEPT !.lastSettle.thrown = TRUE]
         ELSE [UpdateStatus(RemoveLockedJob(p1, job), job.name, "locked", -1)
                 EXCEPT !.immediates = @ \cup {{}}]

\* runOrRetry from the end of the race between job.run() and the watchdog:
\* the test that the job is still running, the catch block (job.cancel(error)
\* and one error signal) and the finally block.
RunSettles(p, job, raceError) ==
    LET error == IF raceError = "none" /\ job.id \notin p.runningJobsMap
                 THEN "alreadyComplete" ELSE raceError
    IN  RunFinally([p EXCEPT !.lastSettle =
                        [id |-> job.id, error |-> error,
                         canceled |-> error # "none",
                         errors |-> IF error # "none" THEN 1 ELSE 0,
                         thrown |-> FALSE]],
                   job)

\* What the end of a run writes to the record of the job: the lock cleared
\* and, for a job scheduled once, no next run; lastFinishedAt on success,
\* failCount + 1 on failure or cancellation.
JobRunSaves(st, job, ok, now) ==
    IF job.id \in DOMAIN st /\ st[job.id].name = job.name
    THEN [st EXCEPT ![job.id].lockedAt = NULL,
                    ![job.id].lockedBy = 0,
                    ![job.id].nextRunAt = NULL,
                    ![job.id].lastFinishedAt = IF ok THEN now ELSE @,
                    ![job.id].failCount = IF ok THEN @ ELSE @ + 1]
    ELSE st

(***************************************************************************)
(* Spec: workers sharing one collection                                    *)
(***************************************************************************)

\* Bound: the clock of Spec runs from ClockStart to ProcClockEnd and stays
\* there; a time of ProcClockEnd stands for every later time.
ProcTicks == 3
ProcClockEnd == ClockStart + ProcTicks

\* A lockLifetime that no lock taken at ClockStart or later outlives, and a
\* nextRunAt that stays more than processEvery ahead.
LongLifetime == ProcTicks + 1
FarAhead == ProcClockEnd + 2

\* The configurations of a run; the workers started share one of them:
\*   every worker started, one name defined with a lock limit, batch claims,
\*   locks that do not expire;
\*   one worker started, a total lock limit, single claims, locks that
\*   expire after one time unit;
\*   one worker started, a concurrency per name and maxConcurrency 1, batch
\*   claims, locks that do not expire.
Configs ==
    {[workers |-> Workers,
      maxConcurrency |-> 2, totalLockLimit |-> 0, processEvery |-> 1,
      maxQueueSize |-> MaxQueueSize,
      enableBatchProcessing |-> TRUE, batchSize |-> 0,
      defs |-> [n \in {"A"} |-> Def(0, 1, LongLifetime)]],
     [workers |-> {1},
      maxConcurrency |-> 2, totalLockLimit |-> 1, processEvery |-> 1,
      maxQueueSize |-> MaxQueueSize,
      enableBatchProcessing |-> FALSE, batchSize |-> 0,
      defs |-> [n \in JobNames |-> Def(0, 0, 1)]],
     [workers |-> {1},
      maxConcurrency |-> 1, totalLockLimit |-> 0, processEvery |-> 1,
      maxQueueSize |-> MaxQueueSize,
      enableBatchProcessing |-> TRUE, batchSize |-> 0,
      defs |-> [n \in JobNames |-> Def(1, 0, LongLifetime)]]}

\* The records of the collection when the workers start.
ProcDocs(j) ==
    IF j = 1
    THEN {Doc("A", 0, r, l, FALSE) :
            r \in {ClockStart - 1, FarAhead}, l \in {NULL, 0}}
            \ {Doc("A", 0, FarAhead, NULL, FALSE)}
    ELSE IF j = 2
    THEN {Doc("A", 0, r, NULL, FALSE) : r \in {ClockStart - 1, ClockStart + 1}}
    ELSE {Doc("B", 1, ClockStart - 1, NULL, FALSE)}

\* The state of a worker after `new JobProcessor(...)`; processDue says that
\* the interval timer (or the constructor) is about to call process().  A
\* worker that is not started takes no step.
ProcInit ==
    /\ retry = RetryIdle
    /\ coll = <<>>
    /\ savers = <<>>
    /\ calls = <<>>
    /\ clock = ClockStart
    /\ store \in {st \in [JobIds -> UNION {ProcDocs(j) : j \in JobIds}] :
                    \A j \in JobIds : st[j] \in ProcDocs(j)}
    /\ cfg \in Configs
    /\ proc = [w \in Workers |->
                 IF w \in cfg.workers
                 THEN [p |-> NewProcessor(ClockStart), processDue |-> TRUE]
                 ELSE [p |-> [NewProcessor(ClockStart) EXCEPT !.isRunning = FALSE],
                       processDue |-> FALSE]]
    /\ ops = [w \in Workers |-> [fill |-> [n \in JobNames |-> FillIdle], fly |-> FlyIdle]]

OtherVars == <<retry, coll, savers, calls>>

\* The event loop runs the callbacks of setImmediate before it takes the next
\* event of the worker (a reply, a timer, a call from outside).
NoImmediate(w) == proc[w].p.immediates = {}

\* The first lines of process(): a stopped processor returns at once.
\* afterStop is the record of the calls that were turned away.
ProcessReturnsEarlyNever(p) == FALSE
ProcessReturnsEarly(p) == ~ p.isRunning

\* setInterval(() => this.process(), processEvery) fires, or the constructor
\* calls process(): the discovery pass of every name starts.
ProcessTick(w) ==
    /\ proc[w].processDue
    /\ NoImmediate(w)
    /\ \A n \in JobNames : ops[w].fill[n].pc = "idle"
    /\ IF ProcessReturnsEarly(proc[w].p)
       THEN /\ proc' = [proc EXCEPT ![w].processDue = FALSE,
                                    ![w].p.afterStop = @ \cup {"process"}]
            /\ ops' = ops
       ELSE LET started == StartAllFrom(proc[w].p, ops[w].fill, 1, clock)
                ended == ProcessEnd(started.p, started.fill, clock)
            IN  /\ proc' = [proc EXCEPT ![w] = [p |-> ended.p, processDue |-> FALSE]]
                /\ ops' = [ops EXCEPT ![w].fill = ended.fill]
    /\ UNCHANGED <<clock, store, cfg, OtherVars>>

\* The jobs that are saved while the workers run, and the workers whose
\* Agenda instance saves them.
ExtraJobs == {1}
ExtraWorkers == {1}

\* process(extraJob): a job saved with a nextRunAt before the next scan is
\* locked on the fly.
\* extraCalls is the parity of the number of
\* these calls, so that a call that changes nothing else is a step too.
ProcessExtra(w, j) ==
    /\ NoImmediate(w)
    /\ store[j].name \in DOMAIN cfg.defs
    /\ store[j].nextRunAt # NULL
    /\ store[j].nextRunAt < proc[w].p.nextScanAt
    /\ IF ProcessReturnsEarly(proc[w].p)
       THEN /\ proc' = [proc EXCEPT ![w].p.extraCalls = 1 - @,
                                    ![w].p.afterStop = @ \cup {"processExtra"}]
            /\ ops' = ops
       ELSE LET added == AddJobToLock(proc[w].p, [id |-> j, name |-> store[j].name])
                fly == LockOnTheFly(added, clock)
            IN  /\ proc' = [proc EXCEPT ![w].p = [fly.p EXCEPT !.extraCalls = 1 - @]]
                /\ ops' = [ops EXCEPT ![w].fly =
                             IF added.isLockingOnTheFly THEN @ ELSE fly.op]
    /\ UNCHANGED <<clock, store, cfg, OtherVars>>

\* The store runs the getNextJobToRun call of a discovery pass.
FillClaimNext(w, n) ==
    LET op == ops[w].fill[n] IN
    /\ op.pc = "issued"
    /\ op.kind = "single"
    /\ LET r == GetNextJobToRun(store, n, op.nextScanAt, op.lockDeadline, op.now, w)
       IN  /\ store' = r.store
           /\ ops' = [ops EXCEPT ![w].fill[n] = [FillIdle EXCEPT !.pc = "ready", !.ret = r.ret]]
    /\ UNCHANGED <<clock, cfg, proc, OtherVars>>

\* The store runs the three phases of batchGetNextJobsToRun; the call
\* returns [] after a phase that finds or modifies nothing.
FillBatchSelect(w, n) ==
    LET op == ops[w].fill[n] IN
    /\ op.pc = "issued"
    /\ op.kind = "batch"
    /\ LET ids == BatchSelect(store, n, op.batchSize, op.nextScanAt, op.lockDeadline)
       IN  ops' = [ops EXCEPT ![w].fill[n] =
                     IF Len(ids) = 0 THEN [FillIdle EXCEPT !.pc = "ready"]
                     ELSE [op EXCEPT !.pc = "selected", !.ids = ids]]
    /\ UNCHANGED <<clock, store, cfg, proc, OtherVars>>

FillBatchUpdate(w, n) ==
    LET op == ops[w].fill[n] IN
    /\ op.pc = "selected"
    /\ LET r == BatchUpdate(store, op.ids, op.lockDeadline, op.now, w)
       IN  /\ store' = r.store
           /\ ops' = [ops EXCEPT ![w].fill[n] =
                        IF r.modifiedCount = 0 THEN [FillIdle EXCEPT !.pc = "ready"]
                        ELSE [op EXCEPT !.pc = "updated"]]
    /\ UNCHANGED <<clock, cfg, proc, OtherVars>>

FillBatchFind(w, n) ==
    LET op == ops[w].fill[n] IN
    /\ op.pc = "updated"
    /\ ops' = [ops EXCEPT ![w].fill[n] =
                 [FillIdle EXCEPT !.pc = "ready", !.ret = BatchFind(store, op.ids, op.now, w)]]
    /\ UNCHANGED <<clock, store, cfg, proc, OtherVars>>

\* The reply reaches jobQueueFilling: the jobs claimed are locked and queued,
\* and the pass goes on or ends; process() goes on when every pass has ended.
FillReply(w, n) ==
    /\ ops[w].fill[n].pc = "ready"
    /\ NoImmediate(w)
    /\ LET reply == JobQueueFillingReply(proc[w].p, n, ops[w].fill[n].ret, clock)
           ended == ProcessEnd(reply.p, [ops[w].fill EXCEPT ![n] = reply.op], clock)
       IN  /\ proc' = [proc EXCEPT ![w].p = ended.p]
           /\ ops' = [ops EXCEPT ![w].fill = ended.fill]
    /\ UNCHANGED <<clock, store, cfg, OtherVars>>

\* The store runs the lockJob call of lockOnTheFly.
FlyLockJob(w) ==
    LET op == ops[w].fly IN
    /\ op.pc = "issued"
    /\ LET r == LockJob(store, op.id, op.name, op.lockedAt, w)
       IN  /\ store' = r.store
           /\ ops' = [ops EXCEPT ![w].fly = [FlyIdle EXCEPT !.pc = "ready", !.ret = r.ret]]
    /\ UNCHANGED <<clock, cfg, proc, OtherVars>>

\* The reply reaches lockOnTheFly.
FlyReply(w) ==
    /\ ops[w].fly.pc = "ready"
    /\ NoImmediate(w)
    /\ LET reply == LockOnTheFlyReply(proc[w].p, ops[w].fly.ret, clock)
       IN  /\ proc' = [proc EXCEPT ![w].p = reply.p]
           /\ ops' = [ops EXCEPT ![w].fly = reply.op]
    /\ UNCHANGED <<clock, store, cfg, OtherVars>>

\* The store runs an unlockJob call that the worker did not wait for.
UnlockSent(w, j) ==
    /\ j \in proc[w].p.unlocks
    /\ store' = UnlockJob(store, j)
    /\ proc' = [proc EXCEPT ![w].p.unlocks = @ \ {j}]
    /\ UNCHANGED <<clock, cfg, ops, OtherVars>>

\* A callback of setImmediate runs jobProcessing(handledJobs).
DispatchImmediate(w, handledJobs) ==
    /\ handledJobs \in proc[w].p.immediates
    /\ proc' = [proc EXCEPT ![w].p =
                  JobProcessing([@ EXCEPT !.immediates = @ \ {handledJobs}],
                                handledJobs, clock)]
    /\ UNCHANGED <<clock, store, cfg, ops, OtherVars>>

\* A callback of setTimeout runs jobProcessing().
TimerFires(w, t) ==
    /\ BagIn(t, proc[w].p.timers)
    /\ t <= clock
    /\ NoImmediate(w)
    /\ proc' = [proc EXCEPT ![w].p =
                  JobProcessing([@ EXCEPT !.timers = @ (-) SetToBag({t})], {}, clock)]
    /\ UNCHANGED <<clock, store, cfg, ops, OtherVars>>

\* job.run() settles before the watchdog: the outcome is saved and the
\* finally block of runOrRetry runs.
HandlerSettles(w, i, ok) ==
    /\ i \in 1..Len(proc[w].p.runs)
    /\ NoImmediate(w)
    /\ LET job == proc[w].p.runs[i] IN
       /\ store' = JobRunSaves(store, job, ok, clock)
       /\ proc' = [proc EXCEPT ![w].p =
                     RunSettles([@ EXCEPT !.runs = RemoveAt(@, i)], job,
                                IF ok THEN "none" ELSE "rejected")]
    /\ UNCHANGED <<clock, cfg, ops, OtherVars>>

\* checkIfJobIsStillAlive finds the job expired and rejects: the run is
\* cancelled as failed and the finally block of runOrRetry runs.
WatchdogCancelsUnexpired(w, i) ==
    /\ i \in 1..Len(proc[w].p.runs)
    /\ NoImmediate(w)
    /\ LET job == proc[w].p.runs[i] IN
       /\ store' = JobRunSaves(store, job, FALSE, clock)
       /\ proc' = [proc EXCEPT ![w].p =
                     RunSettles([@ EXCEPT !.runs = RemoveAt(@, i)], job, "lockLifetime")]
    /\ UNCHANGED <<clock, cfg, ops, OtherVars>>

WatchdogCancels(w, i) ==
    /\ i \in 1..Len(proc[w].p.runs)
    /\ IsExpired(proc[w].p.runs[i], clock)
    /\ NoImmediate(w)
    /\ LET job == proc[w].p.runs[i] IN
       /\ store' = JobRunSaves(store, job, FALSE, clock)
       /\ proc' = [proc EXCEPT ![w].p =
                     RunSettles([@ EXCEPT !.runs = RemoveAt(@, i)], job, "lockLifetime")]
    /\ UNCHANGED <<clock, cfg, ops, OtherVars>>

\* No call to the store is on its way: a call takes less than a time unit.
NoCall(w) ==
    /\ \A n \in JobNames : ops[w].fill[n].pc = "idle"
    /\ ops[w].fly.pc = "idle"
    /\ proc[w].p.unlocks = {}

\* checkIfJobIsStillAlive runs every max(processEvery / 2, lockLifetime / 2):
\* a run found expired is cancelled within the time unit.
NoWatchdogDue(w) ==
    \A i \in 1..Len(proc[w].p.runs) : ~ IsExpired(proc[w].p.runs[i], clock)

\* A timer that is due fires within the time unit.
NoTimerDue(w) == \A t \in BagToSet(proc[w].p.timers) : t > clock

\* A time unit passes: the interval timer of every running worker is due
\* again when processEvery has passed since its last call, after the
\* process() call of the last period has been made.
ProcTick ==
    /\ \A w \in Workers :
          /\ ~ proc[w].processDue
          /\ NoImmediate(w)
          /\ NoCall(w)
          /\ NoWatchdogDue(w)
          /\ NoTimerDue(w)
    /\ clock' = Min(clock + 1, ProcClockEnd)
    /\ proc' = [w \in Workers |->
                 [proc[w] EXCEPT !.processDue =
                     /\ proc[w].p.isRunning
                     /\ (clock' - ClockStart) % cfg.processEvery = 0]]
    /\ UNCHANGED <<store, cfg, ops, OtherVars>>

Next ==
    \/ \E w \in Workers : ProcessTick(w)
    \/ \E w \in ExtraWorkers, j \in ExtraJobs : ProcessExtra(w, j)
    \/ \E w \in Workers, n \in JobNames : FillClaimNext(w, n)
    \/ \E w \in Workers, n \in JobNames : FillBatchSelect(w, n)
    \/ \E w \in Workers, n \in JobNames : FillBatchUpdate(w, n)
    \/ \E w \in Workers, n \in JobNames : FillBatchFind(w, n)
    \/ \E w \in Workers, n \in JobNames : FillReply(w, n)
    \/ \E w \in Workers : FlyLockJob(w)
    \/ \E w \in Workers : FlyReply(w)
    \/ \E w \in Workers, j \in JobIds : UnlockSent(w, j)
    \/ \E w \in Workers, h \in SUBSET JobIds : DispatchImmediate(w, h)
    \/ \E w \in Workers, t \in ClockStart..ProcClockEnd : TimerFires(w, t)
    \/ \E w \in Workers, i \in 1..(2 * NumJobs), ok \in BOOLEAN : HandlerSettles(w, i, ok)
    \/ \E w \in Workers, i \in 1..(2 * NumJobs) : WatchdogCancels(w, i)
    \/ ProcTick

RetryNext == RetryAttempt \/ RetryWake

RetryInit ==
    /\ retry \in {RetryStart(o) : o \in RetryOptions}
    /\ coll = <<>>
    /\ savers = <<>>
    /\ clock = 0
    /\ store = <<>>
    /\ calls = <<>>
    /\ cfg = <<>>
    /\ proc = <<>>
    /\ ops = <<>>

RetrySpec == RetryInit /\ [][RetryNext]_vars

Spec == ProcInit /\ [][Next]_vars

\* Nothing is pending on any worker: the guard of ProcTick.
Drained ==
    \A w \in Workers :
        /\ ~ proc[w].processDue
        /\ NoImmediate(w)
        /\ NoCall(w)
        /\ NoWatchdogDue(w)
        /\ NoTimerDue(w)

\* Fair scheduling: the event loop and the store work off what is pending
\* (the process() call that is due, store calls, releases, setImmediate
\* callbacks, due timers and watchdogs), time keeps passing, and a handler
\* that has started settles.
Fairness ==
    /\ []<>Drained
    /\ SF_vars(ProcTick)
    /\ \A w \in Workers :
          SF_vars(\E i \in 1..(2 * NumJobs), ok \in BOOLEAN : HandlerSettles(w, i, ok))

\* The configurations with one worker started.
FairInit ==
    /\ retry = RetryIdle
    /\ coll = <<>>
    /\ savers = <<>>
    /\ calls = <<>>
    /\ clock = ClockStart
    /\ store \in {st \in [JobIds -> UNION {ProcDocs(j) : j \in JobIds}] :
                    \A j \in JobIds : st[j] \in ProcDocs(j)}
    /\ cfg \in {c \in Configs : c.workers = {1}}
    /\ proc = [w \in Workers |->
                 IF w \in cfg.workers
                 THEN [p |-> NewProcessor(ClockStart), processDue |-> TRUE]
                 ELSE [p |-> [NewProcessor(ClockStart) EXCEPT !.isRunning = FALSE],
                       processDue |-> FALSE]]
    /\ ops = [w \in Workers |-> [fill |-> [n \in JobNames |-> FillIdle], fly |-> FlyIdle]]

FairSpec == FairInit /\ [][Next]_vars /\ Fairness

\* Bound: the capacity of the Ready Queue of a worker whose queue fills up.
SmallQueue == 1

\* One worker whose Ready Queue has room for SmallQueue jobs.
OverflowInit ==
    /\ retry = RetryIdle
    /\ coll = <<>>
    /\ savers = <<>>
    /\ calls = <<>>
    /\ clock = ClockStart
    /\ store \in {st \in [JobIds -> UNION {ProcDocs(j) : j \in JobIds}] :
                    \A j \in JobIds : st[j] \in ProcDocs(j)}
    /\ cfg \in {[c EXCEPT !.maxQueueSize = SmallQueue] : c \in {k \in Configs : k.workers = {1}}}
    /\ proc = [w \in Workers |->
                 IF w \in cfg.workers
                 THEN [p |-> NewProcessor(ClockStart), processDue |-> TRUE]
                 ELSE [p |-> [NewProcessor(ClockStart) EXCEPT !.isRunning = FALSE],
                       processDue |-> FALSE]]
    /\ ops = [w \in Workers |-> [fill |-> [n \in JobNames |-> FillIdle], fly |-> FlyIdle]]

OverflowSpec == OverflowInit /\ [][Next]_vars

\* stop(): isRunning is cleared, the interval is cancelled and the locked
\* jobs are returned.  A process() call that is already on its way still
\* arrives (processDue is left as it is).
Stop(w) ==
    /\ proc[w].p.isRunning
    /\ NoImmediate(w)
    /\ proc' = [proc EXCEPT ![w].p.isRunning = FALSE,
                            ![w].p.stopReturned = proc[w].p.lockedJobs]
    /\ UNCHANGED <<clock, store, cfg, ops, OtherVars>>

StopNext == Next \/ \E w \in Workers : Stop(w)

\* One worker that may be stopped at any moment.
StopInit ==
    /\ retry = RetryIdle
    /\ coll = <<>>
    /\ savers = <<>>
    /\ calls = <<>>
    /\ clock = ClockStart
    /\ store \in {st \in [JobIds -> UNION {ProcDocs(j) : j \in JobIds}] :
                    \A j \in JobIds : st[j] \in ProcDocs(j)}
    /\ cfg \in {k \in Configs : k.workers = {1}}
    /\ proc = [w \in Workers |->
                 IF w \in cfg.workers
                 THEN [p |-> NewProcessor(ClockStart), processDue |-> TRUE]
                 ELSE [p |-> [NewProcessor(ClockStart) EXCEPT !.isRunning = FALSE],
                       processDue |-> FALSE]]
    /\ ops = [w \in Workers |-> [fill |-> [n \in JobNames |-> FillIdle], fly |-> FlyIdle]]

StopSpec == StopInit /\ [][StopNext]_vars

\* A claim call of a discovery pass fails in the store or on its way, before
\* or after a phase of the batch call, with a non-conflict error or with a
\* conflict error that outlived its retries.
FillFails(w, n) ==
    /\ ops[w].fill[n].pc \in {"issued", "selected", "updated"}
    /\ ops' = [ops EXCEPT ![w].fill[n] = [FillIdle EXCEPT !.pc = "failed"]]
    /\ UNCHANGED <<clock, store, cfg, proc, OtherVars>>

\* The error reaches jobQueueFilling; process() goes on when every pass has
\* ended.
FillError(w, n) ==
    /\ ops[w].fill[n].pc = "failed"
    /\ NoImmediate(w)
    /\ LET caught == JobQueueFillingError(proc[w].p, n)
           ended == ProcessEnd(caught.p, [ops[w].fill EXCEPT ![n] = caught.op], clock)
       IN  /\ proc' = [proc EXCEPT ![w].p = ended.p]
           /\ ops' = [ops EXCEPT ![w].fill = ended.fill]
    /\ UNCHANGED <<clock, store, cfg, OtherVars>>

\* The steps of workers whose claim calls may fail; no job is saved while
\* they run, so that process(extraJob) is not called.
FailNext ==
    \/ \E w \in Workers : ProcessTick(w)
    \/ \E w \in Workers, n \in JobNames : FillClaimNext(w, n)
    \/ \E w \in Workers, n \in JobNames : FillBatchSelect(w, n)
    \/ \E w \in Workers, n \in JobNames : FillBatchUpdate(w, n)
    \/ \E w \in Workers, n \in JobNames : FillBatchFind(w, n)
    \/ \E w \in Workers, n \in JobNames : FillReply(w, n)
    \/ \E w \in Workers, n \in JobNames : FillFails(w, n)
    \/ \E w \in Workers, n \in JobNames : FillError(w, n)
    \/ \E w \in Workers, j \in JobIds : UnlockSent(w, j)
    \/ \E w \in Workers, h \in SUBSET JobIds : DispatchImmediate(w, h)
    \/ \E w \in Workers, t \in ClockStart..ProcClockEnd : TimerFires(w, t)
    \/ \E w \in Workers, i \in 1..(2 * NumJobs), ok \in BOOLEAN : HandlerSettles(w, i, ok)
    \/ \E w \in Workers, i \in 1..(2 * NumJobs) : WatchdogCancels(w, i)
    \/ ProcTick

\* One worker whose claim calls may fail.
FailInit ==
    /\ retry = RetryIdle
    /\ coll = <<>>
    /\ savers = <<>>
    /\ calls = <<>>
    /\ clock = ClockStart
    /\ store \in {st \in [JobIds -> UNION {ProcDocs(j) : j \in JobIds}] :
                    \A j \in JobIds : st[j] \in ProcDocs(j)}
    /\ cfg \in {k \in Configs : k.workers = {1}}
    /\ proc = [w \in Workers |->
                 IF w \in cfg.workers
                 THEN [p |-> NewProcessor(ClockStart), processDue |-> TRUE]
                 ELSE [p |-> [NewProcessor(ClockStart) EXCEPT !.isRunning = FALSE],
                       processDue |-> FALSE]]
    /\ ops = [w \in Workers |-> [fill |-> [n \in JobNames |-> FillIdle], fly |-> FlyIdle]]

FailSpec == FailInit /\ [][FailNext]_vars

(***************************************************************************)
(* ConnectionPoolManager: shared connection pools                          *)
(***************************************************************************)

\* Bound: the number of getInstance, connect and disconnect calls of a run.
MaxPoolCalls == 5

\* The connection strings, and the critical options a caller passes: none
\* of them ("unset"), or a maxPoolSize and a minPoolSize equal to those of
\* the environment ("sized").
ConnectionStrings == {"u"}
PoolOptions == {"unset", "sized"}

\* getPoolKey(connectionString, options)
GetPoolKey(connectionString, options) == <<connectionString, options>>

PoolKeys == {GetPoolKey(c, o) : c \in ConnectionStrings, o \in PoolOptions}

\* mergeWithEnvironmentDefaults(userOptions): the environment supplies
\* maxPoolSize and minPoolSize where the caller gave none.
MergeWithEnvironmentDefaults(options) == "sized"

\* getInstance(connectionString, options): the pools made so far, the static
\* map (0 for no entry) and the instance returned.
GetInstance(instances, pools, connectionString, options) ==
    LET key == GetPoolKey(connectionString, options)
        made == IF instances[key] = 0
                THEN Append(pools, [connectionString |-> connectionString,
                                    options |-> MergeWithEnvironmentDefaults(options),
                                    referenceCount |-> 0, mongoClient |-> FALSE])
                ELSE pools
        instance == IF instances[key] = 0 THEN Len(made) ELSE instances[key]
    IN  [instances |-> [instances EXCEPT ![key] = instance],
         pools |-> [made EXCEPT ![instance].referenceCount = @ + 1],
         instance |-> instance]

\* disconnect() up to `await this.mongoClient.close()`.
Disconnect(pool) ==
    LET count == IF pool.referenceCount > 0 THEN pool.referenceCount - 1
                 ELSE pool.referenceCount
    IN  [pool |-> [pool EXCEPT !.referenceCount = count],
         closes |-> count <= 0 /\ pool.mongoClient]

\* disconnect() after the await: the client is dropped, the entry of the
\* pool's own key is deleted from the static map and the count is reset.
DisconnectClosed(instances, pools, i) ==
    [instances |-> [instances EXCEPT
                      ![GetPoolKey(pools[i].connectionString, pools[i].options)] = 0],
     pools |-> [pools EXCEPT ![i].mongoClient = FALSE, ![i].referenceCount = 0]]

\* The pools of a process: the static map, the instances made, the close
\* calls that are awaited, and the history of the calls (the key each
\* instance was made for, the holders each instance should count, the last
\* getInstance call).
PoolInit ==
    /\ proc = [instances |-> [k \in PoolKeys |-> 0],
               pools |-> <<>>,
               closing |-> <<>>,
               madeFor |-> <<>>,
               holders |-> <<>>,
               callsMade |-> 0,
               last |-> [key |-> GetPoolKey("u", "unset"), instance |-> 0]]
    /\ retry = RetryIdle
    /\ coll = <<>>
    /\ savers = <<>>
    /\ clock = ClockStart
    /\ store = <<>>
    /\ calls = <<>>
    /\ cfg = <<>>
    /\ ops = <<>>

PoolOther == <<retry, coll, savers, clock, store, calls, cfg, ops>>

\* ConnectionPoolManager.getInstance(connectionString, options)
PoolGetInstance(connectionString, options) ==
    /\ proc.callsMade < MaxPoolCalls
    /\ LET r == GetInstance(proc.instances, proc.pools, connectionString, options)
           new == r.instance > Len(proc.pools)
       IN  proc' = [proc EXCEPT
                      !.instances = r.instances,
                      !.pools = r.pools,
                      !.closing = IF new THEN Append(@, 0) ELSE @,
                      !.madeFor = IF new THEN Append(@, GetPoolKey(connectionString, options))
                                  ELSE @,
                      !.holders = IF new THEN Append(@, 1)
                                  ELSE [@ EXCEPT ![r.instance] = @ + 1],
                      !.callsMade = @ + 1,
                      !.last = [key |-> GetPoolKey(connectionString, options),
                                instance |-> r.instance]]
    /\ UNCHANGED PoolOther

\* pool.connect() of a pool without a client.
PoolConnect(i) ==
    /\ proc.callsMade < MaxPoolCalls
    /\ i \in 1..Len(proc.pools)
    /\ ~ proc.pools[i].mongoClient
    /\ proc' = [proc EXCEPT !.pools[i].mongoClient = TRUE, !.callsMade = @ + 1]
    /\ UNCHANGED PoolOther

\* pool.disconnect() is called and runs up to its await, or to its end.
PoolDisconnect(i) ==
    /\ proc.callsMade < MaxPoolCalls
    /\ i \in 1..Len(proc.pools)
    /\ LET r == Disconnect(proc.pools[i])
       IN  proc' = [proc EXCEPT
                      !.pools[i] = r.pool,
                      !.closing[i] = IF r.closes THEN @ + 1 ELSE @,
                      !.holders[i] = Max(0, @ - 1),
                      !.callsMade = @ + 1]
    /\ UNCHANGED PoolOther

\* mongoClient.close() settles and disconnect() runs to its end.
PoolClosed(i) ==
    /\ i \in 1..Len(proc.pools)
    /\ proc.closing[i] > 0
    /\ LET r == DisconnectClosed(proc.instances, proc.pools, i)
       IN  proc' = [proc EXCEPT !.instances = r.instances,
                                !.pools = r.pools,
                                !.closing[i] = @ - 1]
    /\ UNCHANGED PoolOther

PoolNext ==
    \/ \E c \in ConnectionStrings, o \in PoolOptions : PoolGetInstance(c, o)
    \/ \E i \in 1..MaxPoolCalls : PoolConnect(i)
    \/ \E i \in 1..MaxPoolCalls : PoolDisconnect(i)
    \/ \E i \in 1..MaxPoolCalls : PoolClosed(i)

PoolSpec == PoolInit /\ [][PoolNext]_vars

\* One worker that scans every two time units and whose locks last one: a
\* job claimed ahead of its nextRunAt may see its lock expire in the queue.
AheadDocs(j) ==
    IF j = 1
    THEN {Doc("A", 0, r, NULL, FALSE) : r \in {ClockStart + 1, ClockStart + 2}}
    ELSE IF j = 2
    THEN {Doc("A", 1, r, NULL, FALSE) : r \in {ClockStart - 1, ClockStart + 2}}
    ELSE {Doc("B", 0, r, l, FALSE) : r \in {ClockStart - 1, ClockStart}, l \in {NULL, 0}}

AheadInit ==
    /\ retry = RetryIdle
    /\ coll = <<>>
    /\ savers = <<>>
    /\ calls = <<>>
    /\ clock = ClockStart
    /\ store \in {st \in [JobIds -> UNION {AheadDocs(j) : j \in JobIds}] :
                    \A j \in JobIds : st[j] \in AheadDocs(j)}
    /\ cfg = [workers |-> {1},
              maxConcurrency |-> 2, totalLockLimit |-> 0, processEvery |-> 2,
              maxQueueSize |-> MaxQueueSize,
              enableBatchProcessing |-> FALSE, batchSize |-> 0,
              defs |-> [n \in JobNames |-> Def(0, 0, 1)]]
    /\ proc = [w \in Workers |->
                 IF w \in cfg.workers
                 THEN [p |-> NewProcessor(ClockStart), processDue |-> TRUE]
                 ELSE [p |-> [NewProcessor(ClockStart) EXCEPT !.isRunning = FALSE],
                       processDue |-> FALSE]]
    /\ ops = [w \in Workers |-> [fill |-> [n \in JobNames |-> FillIdle], fly |-> FlyIdle]]

\* The steps of a worker that claims one record at a time and has no lock
\* limit; no job is saved while it runs.
AheadNext ==
    \/ \E w \in Workers : ProcessTick(w)
    \/ \E w \in Workers, n \in JobNames : FillClaimNext(w, n)
    \/ \E w \in Workers, n \in JobNames : FillReply(w, n)
    \/ \E w \in Workers, h \in SUBSET JobIds : DispatchImmediate(w, h)
    \/ \E w \in Workers, t \in ClockStart..ProcClockEnd : TimerFires(w, t)
    \/ \E w \in Workers, i \in 1..(2 * NumJobs), ok \in BOOLEAN : HandlerSettles(w, i, ok)
    \/ \E w \in Workers, i \in 1..(2 * NumJobs) : WatchdogCancels(w, i)
    \/ ProcTick

AheadSpec == AheadInit /\ [][AheadNext]_vars

\* The timers of the watchdogs keep firing and the callbacks of setImmediate
\* are run; nothing is assumed of the handlers, which may never settle.
\* The steps of a worker whose jobs are not saved while they run and whose
\* calls to the store do not fail.
DrainNext ==
    \/ \E w \in Workers : ProcessTick(w)
    \/ \E w \in Workers, n \in JobNames : FillClaimNext(w, n)
    \/ \E w \in Workers, n \in JobNames : FillBatchSelect(w, n)
    \/ \E w \in Workers, n \in JobNames : FillBatchUpdate(w, n)
    \/ \E w \in Workers, n \in JobNames : FillBatchFind(w, n)
    \/ \E w \in Workers, n \in JobNames : FillReply(w, n)
    \/ \E w \in Workers, j \in JobIds : UnlockSent(w, j)
    \/ \E w \in Workers, h \in SUBSET JobIds : DispatchImmediate(w, h)
    \/ \E w \in Workers, t \in ClockStart..ProcClockEnd : TimerFires(w, t)
    \/ \E w \in Workers, i \in 1..(2 * NumJobs), ok \in BOOLEAN : HandlerSettles(w, i, ok)
    \/ \E w \in Workers, i \in 1..(2 * NumJobs) : WatchdogCancels(w, i)
    \/ ProcTick

\* Every setImmediate callback runs and every reply of the store reaches
\* the worker; the store runs every call made to it.
DrainFairness ==
    /\ []<>(\A w \in Workers : NoImmediate(w))
    /\ \A w \in Workers : \A n \in JobNames :
          /\ []<>(ops[w].fill[n].pc # "ready")
          /\ WF_vars(FillClaimNext(w, n))
          /\ WF_vars(FillBatchSelect(w, n))
          /\ WF_vars(FillBatchUpdate(w, n))
          /\ WF_vars(FillBatchFind(w, n))

DrainSpec == FairInit /\ [][DrainNext]_vars /\ DrainFairness

\* The records of a worker that runs one job at a time: two of name A, one
\* of them due a time unit later in some collections, and one of name B.
CeilingDocs(j) ==
    IF j = 1
    THEN {Doc("A", 0, ClockStart - 1, NULL, FALSE)}
    ELSE IF j = 2
    THEN {Doc("A", 0, r, NULL, FALSE) : r \in {ClockStart - 1, ClockStart + 1}}
    ELSE {Doc("B", 1, ClockStart - 1, NULL, FALSE)}

\* One worker that runs one job at a time and claims one record at a time,
\* with locks that expire after one time unit.
CeilingInit ==
    /\ retry = RetryIdle
    /\ coll = <<>>
    /\ savers = <<>>
    /\ calls = <<>>
    /\ clock = ClockStart
    /\ store \in {st \in [JobIds -> UNION {CeilingDocs(j) : j \in JobIds}] :
                    \A j \in JobIds : st[j] \in CeilingDocs(j)}
    /\ cfg = [workers |-> {1},
              maxConcurrency |-> 1, totalLockLimit |-> 0, processEvery |-> 1,
              maxQueueSize |-> MaxQueueSize,
              enableBatchProcessing |-> FALSE, batchSize |-> 0,
              defs |-> [n \in JobNames |-> Def(0, 0, 1)]]
    /\ proc = [w \in Workers |->
                 IF w \in cfg.workers
                 THEN [p |-> NewProcessor(ClockStart), processDue |-> TRUE]
                 ELSE [p |-> [NewProcessor(ClockStart) EXCEPT !.isRunning = FALSE],
                       processDue |-> FALSE]]
    /\ ops = [w \in Workers |-> [fill |-> [n \in JobNames |-> FillIdle], fly |-> FlyIdle]]

\* Every setImmediate callback runs and every call to the store returns;
\* every handler settles or is cancelled by its watchdog.
CeilingFairness ==
    /\ []<>(\A w \in Workers : NoImmediate(w) /\ NoCall(w))
    /\ \A w \in Workers :
          WF_vars(\E i \in 1..(2 * NumJobs) :
                     \/ WatchdogCancels(w, i)
                     \/ \E ok \in BOOLEAN : HandlerSettles(w, i, ok))

CeilingSpec == CeilingInit /\ [][AheadNext]_vars /\ CeilingFairness

WatchFairness ==
    \A w \in Workers :
        /\ WF_vars(\E h \in SUBSET JobIds : DispatchImmediate(w, h))
        /\ SF_vars(\E i \in 1..(2 * NumJobs) : WatchdogCancels(w, i))

\* One worker that claims one record at a time, with locks that expire
\* after one time unit.
WatchInit ==
    /\ retry = RetryIdle
    /\ coll = <<>>
    /\ savers = <<>>
    /\ calls = <<>>
    /\ clock = ClockStart
    /\ store \in {st \in [JobIds -> UNION {ProcDocs(j) : j \in JobIds}] :
                    \A j \in JobIds : st[j] \in ProcDocs(j)}
    /\ cfg \in {k \in Configs : ~ k.enableBatchProcessing}
    /\ proc = [w \in Workers |->
                 IF w \in cfg.workers
                 THEN [p |-> NewProcessor(ClockStart), processDue |-> TRUE]
                 ELSE [p |-> [NewProcessor(ClockStart) EXCEPT !.isRunning = FALSE],
                       processDue |-> FALSE]]
    /\ ops = [w \in Workers |-> [fill |-> [n \in JobNames |-> FillIdle], fly |-> FlyIdle]]

\* The steps of workers that do not claim in batches.
WatchNext ==
    \/ \E w \in Workers : ProcessTick(w)
    \/ \E w \in ExtraWorkers, j \in ExtraJobs : ProcessExtra(w, j)
    \/ \E w \in Workers, n \in JobNames : FillClaimNext(w, n)
    \/ \E w \in Workers, n \in JobNames : FillReply(w, n)
    \/ \E w \in Workers : FlyLockJob(w)
    \/ \E w \in Workers : FlyReply(w)
    \/ \E w \in Workers, j \in JobIds : UnlockSent(w, j)
    \/ \E w \in Workers, h \in SUBSET JobIds : DispatchImmediate(w, h)
    \/ \E w \in Workers, t \in ClockStart..ProcClockEnd : TimerFires(w, t)
    \/ \E w \in Workers, i \in 1..(2 * NumJobs), ok \in BOOLEAN : HandlerSettles(w, i, ok)
    \/ \E w \in Workers, i \in 1..(2 * NumJobs) : WatchdogCancels(w, i)
    \/ ProcTick

WatchSpec == WatchInit /\ [][WatchNext]_vars /\ WatchFairness

RetryDone == retry.pc \in {"returned", "thrown"}

\* The conflict class of the specification: duplicate key (11000), write
\* conflict (112 or codeName WriteConflict), or a message naming either.
ConflictClass(out) ==
    /\ ~out.ok
    /\ out.error # NoError
    /\ \/ out.error.code \in {11000, 112}
       \/ out.error.codeName = "WriteConflict"
       \/ out.error.message \in {"has WriteConflict", "has duplicate key"}

\* Attempt i (from 0) ends the call: it succeeded, failed with an error
\* that is not retried, or is attempt number maxRetries.
RetryStopsAt(i) ==
    \/ retry.history[i + 1].ok
    \/ ~ConflictClass(retry.history[i + 1])
    \/ i = retry.opts.maxRetries

\* C9: retryWithBackoff invokes the operation exactly j+1 times, j being the
\* first attempt that succeeds, fails with a non-retryable error or is attempt
\* maxRetries, and its outcome is that attempt's outcome; so it makes between
\* 1 and maxRetries+1 attempts and none after an attempt that ends the call.
C9_RetryAttempts ==
    /\ retry.calls = Len(retry.history)
    /\ retry.calls <= retry.opts.maxRetries + 1
    /\ \A i \in 0..(retry.calls - 2) : ~RetryStopsAt(i)
    /\ RetryDone =>
         /\ retry.calls >= 1
         /\ RetryStopsAt(retry.calls - 1)
         /\ retry.result = retry.history[retry.calls]
         /\ (retry.pc = "returned") = retry.result.ok

\* A call that returned the value of its third attempt after two conflicts.
C9_Witness ==
    /\ retry.pc = "returned"
    /\ retry.calls = 3
    /\ ConflictClass(retry.history[1])
    /\ ConflictClass(retry.history[2])

\* C10: after attempt k < maxRetries fails with a retryable error the sleep
\* is min(baseDelay * 2^k + jitter, maxDelay) with 0 <= jitter < baseDelay,
\* so it is <= maxDelay and >= min(baseDelay * 2^k, maxDelay); there is no
\* sleep after the last attempt or after a non-retryable error.
C10_RetrySleeps ==
    /\ Len(retry.sleeps) = Len(retry.slept)
    /\ \A i \in 1..Len(retry.sleeps) :
         LET k == retry.slept[i]
             d == retry.sleeps[i]
             b == retry.opts.baseDelay
             m == retry.opts.maxDelay
         IN  /\ k = i - 1
             /\ k < retry.opts.maxRetries
             /\ ConflictClass(retry.history[k + 1])
             /\ d <= m
             /\ d >= (IF b * Pow2(k) <= m THEN b * Pow2(k) ELSE m)
             /\ \E jitter \in 0..(b - 1) :
                    d = (IF b * Pow2(k) + jitter <= m THEN b * Pow2(k) + jitter ELSE m)
    /\ RetryDone => Len(retry.sleeps) = retry.calls - 1
    /\ retry.pc = "sleeping" => Len(retry.sleeps) = retry.calls

\* A sleep that the ceiling cut short: baseDelay * 2^k alone exceeds maxDelay.
C10_Witness ==
    /\ Len(retry.sleeps) >= 2
    /\ retry.opts.baseDelay * Pow2(retry.slept[2]) > retry.opts.maxDelay
    /\ retry.sleeps[2] = retry.opts.maxDelay

SaveSpec == SaveInit /\ [][SaveNext]_vars

\* C8: after any interleaving of concurrent saveJob calls that create a job
\* of type single with a name, exactly one record with that name and type
\* single exists.
C8_SingleUnique ==
    \A n \in JobNames :
        (\E s \in SaverIds : savers[s].pc = "done" /\ savers[s].name = n)
            => Cardinality(SingleMatches(coll, n)) = 1

RepoSpec == RepoInit /\ [][RepoNext]_vars

\* saveJob(job) of a job that has an id and was disabled by its owner:
\* findOneAndUpdate({_id, name}, {$set: props}) writes disabled: true.
SaveDisabled(st, j) == [st EXCEPT ![j].disabled = TRUE]

\* Another writer saves record j as disabled while claim calls are on their
\* way through the store.
RepoDisable(j) ==
    /\ ~ store[j].disabled
    /\ store' = SaveDisabled(store, j)
    /\ UNCHANGED <<retry, coll, savers, clock, calls, cfg, proc, ops>>

DisableNext == RepoNext \/ \E j \in JobIds : RepoDisable(j)

DisableSpec == RepoInit /\ [][DisableNext]_vars

CallDone(c, kind) == calls[c].pc = "done" /\ calls[c].kind = kind

\* A document some call's arguments select through the unlocked branch of
\* the query and that nobody has locked.
StillClaimable(c, j) ==
    /\ store[j].name = calls[c].name
    /\ ~store[j].disabled
    /\ store[j].lockedAt = NULL
    /\ store[j].nextRunAt # NULL
    /\ store[j].nextRunAt <= calls[c].nextScanAt

\* C2: of two concurrent lockJob calls, or two concurrent getNextJobToRun
\* calls, that target the same unlocked enabled job, exactly one returns the
\* record with lockedAt set and the other returns none, and the lockedAt of
\* the record is the one the winner wrote.
C2_OneWinner ==
    /\ \A c \in CallIds :
         (calls[c].pc = "done" /\ calls[c].kind \in {"lockJob", "claimNext"}) =>
            /\ Len(calls[c].ret) <= 1
            /\ \A i \in 1..Len(calls[c].ret) :
                 LET r == calls[c].ret[i] IN
                 /\ r.lockedAt = calls[c].now
                 /\ store[r.id].lockedAt = calls[c].now
                 /\ store[r.id].lockedBy = c
                 /\ store[r.id].name = calls[c].name
                 /\ ~store[r.id].disabled
    /\ \A c, d \in CallIds :
         (c # d /\ calls[c].pc = "done" /\ calls[d].pc = "done"
            /\ calls[c].kind \in {"lockJob", "claimNext"}
            /\ calls[d].kind \in {"lockJob", "claimNext"}) =>
                RetIds(calls[c].ret) \cap RetIds(calls[d].ret) = {}
    /\ \A c \in CallIds :
         CallDone(c, "lockJob") /\ calls[c].ret = <<>> =>
            ~StillClaimable(c, calls[c].job)
    /\ \A c \in CallIds :
         CallDone(c, "claimNext") /\ calls[c].ret = <<>> =>
            \A j \in JobIds : ~StillClaimable(c, j)

\* Two lockJob calls raced for one unlocked job: one has it, the other none.
C2_Witness ==
    \E c, d \in CallIds :
        /\ c # d
        /\ CallDone(c, "lockJob") /\ CallDone(d, "lockJob")
        /\ calls[c].job = calls[d].job
        /\ calls[c].ret # <<>> /\ calls[d].ret = <<>>
        /\ store[calls[c].job].lockedBy = c

\* C3: no record id is returned by more than one of any number of concurrent
\* batchGetNextJobsToRun calls, whatever the interleaving of their select,
\* update and re-read phases, calls with equal now stamps included.
C3_BatchDisjoint ==
    \A c, d \in CallIds :
        (c # d /\ CallDone(c, "batch") /\ CallDone(d, "batch")) =>
            RetIds(calls[c].ret) \cap RetIds(calls[d].ret) = {}

(***************************************************************************)
(* QueueSpec: one Ready Queue under insert, pop and remove                 *)
(***************************************************************************)

\* Bounds: the capacity the queue is constructed with and the number of
\* insert calls.
QueueCap == 3
MaxInserts == 4

\* The jobs handed to insert: run times and priorities that tie and differ,
\* a job without nextRunAt among them; ids are given in the order of the
\* insert calls.
QueueJob(id, name, nextRunAt, priority) ==
    JobOf([id |-> id, name |-> name, priority |-> priority, nextRunAt |-> nextRunAt,
           lockedAt |-> ClockStart])

\* The definitions: name A with concurrency 1, and name B either registered
\* without a ceiling or not registered.
QueueConfigs ==
    {[maxQueueSize |-> QueueCap,
      defs |-> [n \in JobNames |-> Def(IF n = "A" THEN 1 ELSE 0, 0, LongLifetime)]],
     [maxQueueSize |-> QueueCap,
      defs |-> [n \in {"A"} |-> Def(1, 0, LongLifetime)]]}

QueueInit ==
    /\ cfg \in {c \in QueueConfigs : DOMAIN c.defs = JobNames}
    /\ proc = [jobQueue |-> <<>>, inserts |-> 0, job |-> NoJob, ret |-> TRUE,
               events |-> <<>>]
    /\ clock = ClockStart
    /\ store = <<>>
    /\ calls = <<>>
    /\ retry = RetryIdle
    /\ coll = <<>>
    /\ savers = <<>>
    /\ ops = <<>>

QueueOther == <<retry, coll, savers, clock, store, calls, cfg, ops>>

\* insert(job)
QueueInsertJob(name, nextRunAt, priority) ==
    /\ proc.inserts < MaxInserts
    /\ LET job == QueueJob(proc.inserts + 1, name, nextRunAt, priority)
           r == QueueInsertCap(proc.jobQueue, job, cfg.maxQueueSize)
       IN  proc' = [proc EXCEPT !.jobQueue = r.queue, !.job = job, !.ret = r.inserted,
                                !.events = @ \o r.emit, !.inserts = @ + 1]
    /\ UNCHANGED QueueOther

\* pop()
QueuePopJob ==
    /\ proc.jobQueue # <<>>
    /\ proc' = [proc EXCEPT !.jobQueue = QueuePop(@)]
    /\ UNCHANGED QueueOther

\* remove(job) for a job of the queue
QueueRemoveJob(i) ==
    /\ i \in 1..Len(proc.jobQueue)
    /\ proc' = [proc EXCEPT !.jobQueue = QueueRemove(@, proc.jobQueue[i])]
    /\ UNCHANGED QueueOther

QueueNext ==
    \/ \E name \in JobNames, nextRunAt \in {NULL, 1, 2}, priority \in {0, 1} :
          QueueInsertJob(name, nextRunAt, priority)
    \/ QueuePopJob
    \/ \E i \in 1..QueueCap : QueueRemoveJob(i)

QueueSpec == QueueInit /\ [][QueueNext]_vars

(***************************************************************************)
(* PickSpec: the search for the next job that concurrency does not block   *)
(***************************************************************************)

\* The jobStatus a search is given: no status yet, none running, one running.
QueueStatuses ==
    {[has |-> FALSE, locked |-> 0, running |-> 0],
     [has |-> TRUE, locked |-> 1, running |-> 0],
     [has |-> TRUE, locked |-> 1, running |-> 1]}

PickInit ==
    /\ cfg \in QueueConfigs
    /\ proc \in [jobQueue : {<<>>}, jobStatus : [JobNames -> QueueStatuses],
                 inserts : {0}, picked : {NoJob}, handledJobs : {{}}]
    /\ clock = ClockStart
    /\ store = <<>>
    /\ calls = <<>>
    /\ retry = RetryIdle
    /\ coll = <<>>
    /\ savers = <<>>
    /\ ops = <<>>

\* insert(job); what an earlier search returned is forgotten.
PickInsertJob(name, nextRunAt) ==
    /\ proc.inserts < QueueCap
    /\ LET job == QueueJob(proc.inserts + 1, name, nextRunAt, 0)
           r == QueueInsertCap(proc.jobQueue, job, cfg.maxQueueSize)
       IN  proc' = [proc EXCEPT !.jobQueue = r.queue, !.inserts = @ + 1,
                                !.picked = NoJob, !.handledJobs = {}]
    /\ UNCHANGED QueueOther

\* returnNextConcurrencyFreeJob(jobStatus, handledJobs)
QueuePick(handledJobs) ==
    /\ LET i == ReturnNextConcurrencyFreeJob(proc, handledJobs) IN
       proc' = [proc EXCEPT !.picked = IF i = 0 THEN NoJob ELSE proc.jobQueue[i],
                            !.handledJobs = handledJobs]
    /\ UNCHANGED QueueOther

PickNext ==
    \/ \E name \in JobNames, nextRunAt \in {1, 2} : PickInsertJob(name, nextRunAt)
    \/ \E handledJobs \in SUBSET (1..QueueCap) : QueuePick(handledJobs)

PickSpec == PickInit /\ [][PickNext]_vars

(***************************************************************************)
(* Claims about the repository, continued (RepoSpec)                       *)
(***************************************************************************)

\* Eligible for claim: of name n, not disabled, and either unlocked with
\* nextRunAt <= scanHorizon or locked with lockedAt <= lockDeadline.
EligibleForClaim(j, n, scanHorizon, lockDeadline) ==
    /\ store[j].name = n
    /\ ~ store[j].disabled
    /\ \/ /\ store[j].lockedAt = NULL
          /\ store[j].nextRunAt # NULL
          /\ store[j].nextRunAt <= scanHorizon
       \/ /\ store[j].lockedAt # NULL
          /\ store[j].lockedAt <= lockDeadline

EligibleFor(c) ==
    {j \in JobIds : EligibleForClaim(j, calls[c].name, calls[c].nextScanAt,
                                     calls[c].lockDeadline)}

\* A step of call c, a getNextJobToRun or a batchGetNextJobsToRun.
ClaimStepOf(c) ==
    /\ calls[c].kind \in {"claimNext", "batch"}
    /\ calls'[c] # calls[c]

StrictlyBefore(a, b) ==
    \/ store[a].nextRunAt < store[b].nextRunAt
    \/ store[a].nextRunAt = store[b].nextRunAt /\ store[a].priority > store[b].priority

\* The ids are listed in (nextRunAt ascending, priority descending) order.
InClaimOrder(ids) ==
    \A i, k \in 1..Len(ids) : i < k => ~ StrictlyBefore(ids[k], ids[i])

\* C12: claimNext claims an eligible record that no eligible record comes
\* strictly before; batchClaim selects min(batchSize, number eligible)
\* records, in order, none of them coming after an eligible record left out;
\* and it returns at most batchSize records, each with lockedAt = now, in
\* that same order.
C12_ClaimOrder ==
    /\ [][\A c \in CallIds : ClaimStepOf(c) =>
            /\ calls[c].kind = "claimNext" =>
                  \A j \in RetIds(calls'[c].ret) : \A k \in EligibleFor(c) :
                      ~ StrictlyBefore(k, j)
            /\ (calls[c].kind = "batch" /\ calls[c].pc = "issued") =>
                  /\ Len(calls'[c].ids) =
                        Min(calls[c].batchSize, Cardinality(EligibleFor(c)))
                  /\ InClaimOrder(calls'[c].ids)
                  /\ \A j \in Range(calls'[c].ids) :
                        \A k \in EligibleFor(c) \ Range(calls'[c].ids) :
                            ~ StrictlyBefore(k, j)]_vars
    /\ [](\A c \in CallIds : CallDone(c, "batch") =>
            /\ Len(calls[c].ret) <= calls[c].batchSize
            /\ \A i \in 1..Len(calls[c].ret) : calls[c].ret[i].lockedAt = calls[c].now
            /\ InClaimOrder([i \in 1..Len(calls[c].ret) |-> calls[c].ret[i].id]))

\* A batch of size 2 returned two of three eligible records: the one left
\* out is of lower priority than one returned although its id is smaller.
C12_Witness ==
    \E c \in CallIds : \E k \in JobIds :
        /\ CallDone(c, "batch")
        /\ calls[c].batchSize = 2
        /\ Len(calls[c].ret) = 2
        /\ k \notin RetIds(calls[c].ret)
        /\ store[k].name = "A" /\ ~ store[k].disabled /\ store[k].lockedAt = NULL
        /\ store[k].nextRunAt <= calls[c].nextScanAt
        /\ \E j \in RetIds(calls[c].ret) : k < j /\ StrictlyBefore(j, k)


(***************************************************************************)
(* Claims about claim and release (TripSpec)                               *)
(***************************************************************************)

\* The fields of a record other than lockedAt (and the note of who wrote it).
WithoutLock(doc) == [doc EXCEPT !.lockedAt = NULL, !.lockedBy = 0]

\* C13: after lockJob or getNextJobToRun followed by unlockJob of the job
\* returned, with no other writer, every field other than lockedAt of every
\* record is what it was before the claim.
C13_ClaimRelease ==
    (calls.pc = "released" /\ calls.kind \in {"lockJob", "claimNext"}) =>
        \A j \in JobIds : WithoutLock(store[j]) = WithoutLock(calls.before[j])

\* getNextJobToRun took over an expired lock and the job was released.
C13_Witness ==
    /\ calls.pc = "released" /\ calls.kind = "claimNext"
    /\ calls.before[calls.ret[1].id].lockedAt = 0
    /\ store[calls.ret[1].id].lockedAt = NULL

\* C14 as stated: after batchGetNextJobsToRun followed by unlockJobs of the
\* returned ids, with no other writer, every record, lockedAt included,
\* equals its value before the batch claim.
C14_BatchReleaseUnchanged ==
    (calls.pc = "released" /\ calls.kind = "batch") =>
        \A j \in JobIds :
            /\ WithoutLock(store[j]) = WithoutLock(calls.before[j])
            /\ store[j].lockedAt = calls.before[j].lockedAt

\* C14 amended: after batchGetNextJobsToRun followed by unlockJobs of the
\* returned ids, every field other than lockedAt is unchanged, a record not
\* returned keeps its lockedAt, and a returned record is unlocked, unless
\* its nextRunAt is null, in which case it keeps the lock of the claim.  So
\* the collection is unchanged when every returned record was unlocked
\* before the claim, and an expired lock that the batch took over is gone.
C14_BatchRelease ==
    (calls.pc = "released" /\ calls.kind = "batch") =>
        \A j \in JobIds :
            /\ WithoutLock(store[j]) = WithoutLock(calls.before[j])
            /\ j \notin RetIds(calls.ret) => store[j].lockedAt = calls.before[j].lockedAt
            /\ j \in RetIds(calls.ret) =>
                  store[j].lockedAt = IF store[j].nextRunAt # NULL THEN NULL ELSE calls.now

\* A batch returned two records, one unlocked before the claim and one
\* under an expired lock, and both were released; a record not returned
\* still carries its expired lock.
C14_Witness ==
    /\ calls.pc = "released" /\ calls.kind = "batch"
    /\ \E j, k \in RetIds(calls.ret) :
          /\ calls.before[j].lockedAt = NULL /\ store[j].lockedAt = NULL
          /\ calls.before[k].lockedAt = 0 /\ store[k].lockedAt = NULL
    /\ \E m \in JobIds \ RetIds(calls.ret) : store[m].lockedAt = 0


(***************************************************************************)
(* Claims about saveJobState (StateSpec)                                   *)
(***************************************************************************)

\* The record of the collection before the call that saveJobState matches.
StateMatches(j) ==
    /\ j = calls.job
    /\ calls.before[j].name = calls.name

\* C15: saveJobState changes only the record of the job's id and name, and
\* of that record only execution fields (name, priority and disabled stay);
\* it raises an error exactly when no record has that id and name, and then
\* no record is changed.
C15_SaveState ==
    calls.pc = "saved" =>
        /\ calls.error <=> ~ \E j \in JobIds : StateMatches(j)
        /\ calls.error => store = calls.before
        /\ \A j \in JobIds :
              /\ ~ StateMatches(j) => store[j] = calls.before[j]
              /\ store[j].name = calls.before[j].name
              /\ store[j].priority = calls.before[j].priority
              /\ store[j].disabled = calls.before[j].disabled

\* The state of a job was saved whose id is in the collection under another
\* name: the call failed and changed nothing.
C15_Witness ==
    /\ calls.pc = "saved"
    /\ calls.job \in JobIds
    /\ store[calls.job].name # calls.name
    /\ calls.error
    /\ store = calls.before


(***************************************************************************)
(* Claims about the Ready Queue (QueueSpec, PickSpec)                      *)
(***************************************************************************)

\* C16: read from the right end, the queue is in (nextRunAt ascending,
\* priority descending, first inserted first) order: of two jobs that have a
\* nextRunAt, the one on the left is not the earlier one; with equal
\* nextRunAt it is not of higher priority; with equal nextRunAt and priority
\* it is the one inserted later.
C16_QueueOrder ==
    \A i, k \in 1..Len(proc.jobQueue) :
        LET left == proc.jobQueue[i]
            right == proc.jobQueue[k]
        IN  (i < k /\ left.nextRunAt # NULL /\ right.nextRunAt # NULL) =>
               /\ left.nextRunAt >= right.nextRunAt
               /\ left.nextRunAt = right.nextRunAt => left.priority <= right.priority
               /\ (left.nextRunAt = right.nextRunAt /\ left.priority = right.priority)
                     => left.id > right.id

\* C17: the queue never holds more jobs than its capacity; insert on a full
\* queue returns false, emits one queueOverflow event with the name of the
\* job, the queue size and the capacity, and leaves the queue as it is;
\* insert below capacity returns true, emits nothing and adds that job only.
C17_Capacity ==
    /\ [](Len(proc.jobQueue) <= cfg.maxQueueSize)
    /\ [][proc'.inserts = proc.inserts + 1 =>
            IF Len(proc.jobQueue) >= cfg.maxQueueSize
            THEN /\ ~ proc'.ret
                 /\ proc'.jobQueue = proc.jobQueue
                 /\ proc'.events = Append(proc.events,
                       [jobName |-> proc'.job.name, queueSize |-> Len(proc.jobQueue),
                        maxSize |-> cfg.maxQueueSize])
            ELSE /\ proc'.ret
                 /\ proc'.events = proc.events
                 /\ \E k \in 1..Len(proc'.jobQueue) :
                       /\ proc'.jobQueue[k] = proc'.job
                       /\ RemoveAt(proc'.jobQueue, k) = proc.jobQueue]_vars

\* An insert on a full queue has failed with one queueOverflow event.
C17_Witness ==
    /\ ~ proc.ret
    /\ Len(proc.jobQueue) = cfg.maxQueueSize
    /\ Len(proc.events) = 1
    /\ proc.events[1].queueSize = cfg.maxQueueSize

\* The queued job at position i may be returned by the search: its name is
\* registered, the name is not at its concurrency ceiling (no ceiling, no
\* status yet, or running below the ceiling) and its id is not excluded.
Runnable(queue, i, status, excluded) ==
    /\ queue[i].name \in DOMAIN cfg.defs
    /\ \/ cfg.defs[queue[i].name].concurrency = 0
       \/ ~ status[queue[i].name].has
       \/ status[queue[i].name].running < cfg.defs[queue[i].name].concurrency
    /\ queue[i].id \notin excluded

\* C19: returnNextConcurrencyFreeJob(jobStatus, handledJobs) returns the
\* rightmost runnable job of the queue, none when no queued job is runnable,
\* and leaves the queue as it is.
C19_PickNext ==
    [][proc'.inserts = proc.inserts =>
          LET can == {i \in 1..Len(proc.jobQueue) :
                        Runnable(proc.jobQueue, i, proc.jobStatus, proc'.handledJobs)}
          IN  /\ proc'.jobQueue = proc.jobQueue
              /\ can = {} => proc'.picked = NoJob
              /\ can # {} =>
                    \E i \in can : /\ \A h \in can : h <= i
                                   /\ proc'.picked = proc.jobQueue[i]]_vars

\* The search returned the leftmost of three jobs: the rightmost is
\* excluded and the middle one is blocked or not registered.
C19_Witness ==
    /\ Len(proc.jobQueue) = 3
    /\ proc.picked = proc.jobQueue[1]
    /\ proc.jobQueue[3].id \in proc.handledJobs
    /\ proc.jobQueue[2].id \notin proc.handledJobs


(***************************************************************************)
(* Claims about the workers (Spec)                                         *)
(***************************************************************************)

\* The runs of job j that worker w has in flight.
RunsOf(w, j) == {i \in 1..Len(proc[w].p.runs) : proc[w].p.runs[i].id = j}

\* No claim that a worker runs job j under has expired.
NoClaimExpired(j) ==
    \A w \in Workers : \A i \in RunsOf(w, j) : ~ IsExpired(proc[w].p.runs[i], clock)

\* C1: for every job id, at most one worker has the id in its running set,
\* as long as no claim on the id has expired (so that none has been stolen).
C1_MutualExclusion ==
    \A j \in JobIds : \A w1, w2 \in Workers :
        (/\ w1 # w2
         /\ j \in proc[w1].p.runningJobsMap
         /\ j \in proc[w2].p.runningJobsMap)
        => ~ NoClaimExpired(j)

\* C4: in every state of a worker, running[name] is at most the concurrency
\* of the name where that is above 0, and the number of running jobs is at
\* most maxConcurrency; and a step adds a job to running only from a state
\* where both counts are strictly below their ceilings.
WithinCeilings(w) ==
    /\ \A n \in DOMAIN cfg.defs :
          cfg.defs[n].concurrency > 0
          => proc[w].p.jobStatus[n].running <= cfg.defs[n].concurrency
    /\ Len(proc[w].p.runningJobs) <= cfg.maxConcurrency

StartsBelowCeilings(w) ==
    \A n \in DOMAIN cfg.defs :
        proc'[w].p.jobStatus[n].running > proc[w].p.jobStatus[n].running
        => /\ Len(proc[w].p.runningJobs) < cfg.maxConcurrency
           /\ \/ cfg.defs[n].concurrency = 0
              \/ proc[w].p.jobStatus[n].running < cfg.defs[n].concurrency

C4_Ceilings ==
    /\ [](\A w \in Workers : WithinCeilings(w))
    /\ [][\A w \in Workers : StartsBelowCeilings(w)]_vars

\* A worker at maxConcurrency keeps a job in its queue whose name is free,
\* and a worker with a name at its concurrency keeps a job of that name.
C4_Witness ==
    \E w \in Workers : \E i \in 1..Len(proc[w].p.jobQueue) :
        LET n == proc[w].p.jobQueue[i].name IN
        /\ Len(proc[w].p.runningJobs) = cfg.maxConcurrency
        /\ cfg.defs[n].concurrency > 0
        /\ \E k \in 1..Len(proc[w].p.jobQueue) :
              LET m == proc[w].p.jobQueue[k].name IN
              proc[w].p.jobStatus[m].running = cfg.defs[m].concurrency
        /\ proc[w].p.jobStatus[n].running < cfg.defs[n].concurrency

\* C5: in every state of a worker, the number of locked jobs is at most
\* totalLockLimit where that is above 0, and locked[name] is at most the
\* lockLimit of the name where that is above 0; and a step adds a job to
\* locked only from a state where shouldLock(name) is true.
WithinLockLimits(w) ==
    /\ cfg.totalLockLimit > 0 => Len(proc[w].p.lockedJobs) <= cfg.totalLockLimit
    /\ \A n \in DOMAIN cfg.defs :
          cfg.defs[n].lockLimit > 0
          => proc[w].p.jobStatus[n].locked <= cfg.defs[n].lockLimit

LocksAfterShouldLock(w) ==
    /\ \A n \in DOMAIN cfg.defs :
          proc'[w].p.jobStatus[n].locked > proc[w].p.jobStatus[n].locked
          => ShouldLock(proc[w].p, n)
    /\ \A j \in proc'[w].p.lockedJobsMap \ proc[w].p.lockedJobsMap :
          ShouldLock(proc[w].p, store[j].name)

C5_LockLimits ==
    /\ [](\A w \in Workers : WithinLockLimits(w))
    /\ [][\A w \in Workers : LocksAfterShouldLock(w)]_vars

\* A worker at its total lock limit has turned away a job that a pass of
\* another name claimed at the same time, and releases it.
C5_Witness ==
    \E w \in Workers :
        /\ cfg.totalLockLimit > 0
        /\ Len(proc[w].p.lockedJobs) = cfg.totalLockLimit
        /\ \E j \in proc[w].p.unlocks : \E k \in proc[w].p.lockedJobsMap :
              store[j].name # store[k].name

\* No step of any worker is pending: every store call has been answered,
\* every release sent, every setImmediate callback run, and the process()
\* call of the current period made.
Quiescent ==
    \A w \in Workers : NoCall(w) /\ NoImmediate(w) /\ ~ proc[w].processDue

RunningSomewhere(j) ==
    \E w \in Workers : proc[w].p.isRunning /\ j \in proc[w].p.runningJobsMap

\* C6: a record that a worker locked more than 2 x lockLifetime ago, seen
\* when no step is pending, is in the running set of some live worker:
\* every other record has lockedAt = null by then.
C6_NoLeak ==
    \A j \in JobIds :
        ( /\ Quiescent
          /\ store[j].name \in DOMAIN cfg.defs
          /\ store[j].lockedAt # NULL
          /\ store[j].lockedAt >= ClockStart
          /\ clock - store[j].lockedAt > 2 * cfg.defs[store[j].name].lockLifetime )
        => RunningSomewhere(j)

\* The job is enabled and due, its name is registered on a running worker,
\* and that worker has a free slot for the name.
DueWithFreeConcurrency(j) ==
    /\ ~ store[j].disabled
    /\ store[j].nextRunAt # NULL
    /\ store[j].nextRunAt <= clock
    /\ store[j].name \in DOMAIN cfg.defs
    /\ \E w \in Workers :
          /\ proc[w].p.isRunning
          /\ Len(proc[w].p.runningJobs) < cfg.maxConcurrency
          /\ \/ cfg.defs[store[j].name].concurrency = 0
             \/ proc[w].p.jobStatus[store[j].name].running
                   < cfg.defs[store[j].name].concurrency

Outcome(j) == store[j].lastFinishedAt >= ClockStart \/ store[j].failCount > 0

\* Every lock lasts one time unit, so that a lock set before the last
\* modelled instant expires within the modelled time.
ShortLocks == \A n \in DOMAIN cfg.defs : cfg.defs[n].lockLifetime = 1

\* C7: under fair scheduling, a due and enabled job whose name is
\* registered on a running worker with free concurrency is eventually run
\* to an outcome: lastFinishedAt advances or failCount increases.
C7_Progress ==
    \A j \in JobIds :
        (ShortLocks /\ DueWithFreeConcurrency(j)) ~> Outcome(j)

\* C18: when the insert of a freshly claimed job into the full Ready Queue
\* fails, the step leaves the job out of locked, leaves locked[name] as it
\* was, and releases the claim (the release is on its way to the store).
C18_OverflowReleases ==
    [][\A w \in Workers :
          \A j \in (proc'[w].p.notEnqueued \ proc[w].p.notEnqueued)
                      \ proc[w].p.lockedJobsMap :
              /\ j \notin proc'[w].p.lockedJobsMap
              /\ proc'[w].p.jobStatus[store[j].name].locked
                    <= proc[w].p.jobStatus[store[j].name].locked
              /\ j \in proc'[w].p.unlocks]_vars

\* C20: every process(extraJob) on a running processor, for a registered name
\* and a nextRunAt before nextScanAt, leaves the job among the pending claim
\* intents or with a lockJob call issued for it.  The calls made while a
\* lockOnTheFly is in flight, and those that lockOnTheFly turns away by design
\* (a pass of the name in flight, a lock limit reached) are left out.
C20_FastPath ==
    [][\A w \in Workers : \A j \in JobIds :
          (/\ ProcessExtra(w, j)
           /\ ~ proc[w].p.isLockingOnTheFly
           /\ store[j].name \notin proc[w].p.isJobQueueFilling
           /\ ShouldLock(proc[w].p, store[j].name))
          => \/ \E i \in 1..Len(proc'[w].p.jobsToLock) : proc'[w].p.jobsToLock[i].id = j
             \/ ops'[w].fly.pc = "issued" /\ ops'[w].fly.id = j]_vars

\* The jobs of the Ready Queue of worker w, by id.
QueuedIds(q) == {q[i].id : i \in 1..Len(q)}

\* Job j is taken from the Ready Queue of worker w in this step, while its
\* lock is fresh and its nextRunAt is more than processEvery ahead of now.
TakenTooFarAhead(w, j) ==
    /\ j \in QueuedIds(proc[w].p.jobQueue)
    /\ j \notin QueuedIds(proc'[w].p.jobQueue)
    /\ \E i \in 1..Len(proc[w].p.jobQueue) :
          LET job == proc[w].p.jobQueue[i] IN
          /\ job.id = j
          /\ job.lockedAt # NULL
          /\ job.lockedAt > clock - cfg.defs[job.name].lockLifetime
          /\ job.nextRunAt # NULL
          /\ job.nextRunAt - clock > cfg.processEvery

\* C21: a job that a dispatch pass takes from the Ready Queue more than
\* processEvery before its nextRunAt leaves locked, and the release of its
\* record (lockedAt cleared, nextRunAt kept) is sent to the store.
C21_TooFarReleased ==
    [][\A w \in Workers : \A j \in JobIds :
          TakenTooFarAhead(w, j)
          => /\ j \notin proc'[w].p.lockedJobsMap
             /\ j \in proc'[w].p.unlocks
             /\ store'[j].nextRunAt = store[j].nextRunAt]_vars

\* Worker w was started and stop() has been called on it.
Stopped(w) == w \in cfg.workers /\ ~ proc[w].p.isRunning

\* This step is a call of process() or process(extraJob) on worker w.
ProcessCalled(w) ==
    \/ proc[w].processDue /\ ~ proc'[w].processDue
    \/ proc'[w].p.extraCalls # proc[w].p.extraCalls

\* C22: after stop(), a call of process() with or without extraJob sends
\* nothing to the store and changes no bookkeeping, and no step adds a job to
\* running or starts a handler; stop() returns the locked jobs and leaves the
\* running handlers alone.
C22_Stopped ==
    [][\A w \in Workers :
          /\ (Stopped(w) /\ ProcessCalled(w))
             => /\ ops' = ops
                /\ store' = store
                /\ [proc'[w].p EXCEPT !.extraCalls = proc[w].p.extraCalls,
                                      !.afterStop = proc[w].p.afterStop] = proc[w].p
          /\ Stopped(w)
             => /\ proc'[w].p.runningJobsMap \subseteq proc[w].p.runningJobsMap
                /\ Len(proc'[w].p.runningJobs) <= Len(proc[w].p.runningJobs)
                /\ Len(proc'[w].p.runs) <= Len(proc[w].p.runs)
          /\ (proc[w].p.isRunning /\ ~ proc'[w].p.isRunning)
             => /\ proc'[w].p.stopReturned = proc[w].p.lockedJobs
                /\ proc'[w].p.lockedJobs = proc[w].p.lockedJobs
                /\ proc'[w].p.runningJobs = proc[w].p.runningJobs
                /\ proc'[w].p.runs = proc[w].p.runs
                /\ store' = store]_vars

\* Both kinds of process() call arrived after stop(), and a handler that
\* was running when stop() was called has finished since.
C22_Witness ==
    \E w \in Workers :
        /\ Stopped(w)
        /\ proc[w].p.afterStop = {"process", "processExtra"}
        /\ \E i \in 1..Len(proc[w].p.stopReturned) :
              store[proc[w].p.stopReturned[i]].lastFinishedAt # NULL

\* The run of job j on worker w ends in this step as failed: its handler
\* rejected or the watchdog cancelled it.
RunFails(w, j) ==
    /\ Len(proc'[w].p.runs) < Len(proc[w].p.runs)
    /\ \E i \in 1..Len(proc[w].p.runs) :
          /\ proc[w].p.runs[i].id = j
          /\ proc'[w].p.runs = RemoveAt(proc[w].p.runs, i)
    /\ store'[j].failCount = store[j].failCount + 1

\* C23: when a run fails, the job is cancelled with the error, one error
\* signal is emitted and nothing is thrown; the job leaves running and
\* locked, running[name] and locked[name] go down by one, a dispatch pass is
\* scheduled, and the Ready Queue and the other running jobs are untouched.
C23_FailureIsolated ==
    [][\A w \in Workers : \A j \in JobIds :
          RunFails(w, j)
          => LET p == proc[w].p
                 q == proc'[w].p
                 n == store[j].name
             IN  /\ q.lastSettle.id = j
                 /\ q.lastSettle.error \in {"rejected", "lockLifetime"}
                 /\ q.lastSettle.canceled
                 /\ q.lastSettle.errors = 1
                 /\ ~ q.lastSettle.thrown
                 /\ j \notin q.runningJobsMap
                 /\ j \notin q.lockedJobsMap
                 /\ q.jobStatus[n].running = p.jobStatus[n].running - 1
                 /\ q.jobStatus[n].locked = p.jobStatus[n].locked - 1
                 /\ {} \in q.immediates
                 /\ q.jobQueue = p.jobQueue
                 /\ q.runningJobsMap = p.runningJobsMap \ {j}
                 /\ \A m \in JobNames \ {n} : q.jobStatus[m] = p.jobStatus[m]]_vars

\* Job j runs on worker w.
RunsOn(w, j) == \E i \in 1..Len(proc[w].p.runs) : proc[w].p.runs[i].id = j

\* Job j runs on worker w with a lock that is lockLifetime old.
RunsExpiredOn(w, j) ==
    \E i \in 1..Len(proc[w].p.runs) :
        LET job == proc[w].p.runs[i] IN
        /\ job.id = j
        /\ job.lockedAt # NULL
        /\ job.lockedAt <= clock - cfg.defs[job.name].lockLifetime

\* C24: a running job whose lock has expired eventually leaves running and
\* locked (the watchdog cancels it unless the handler settles first); the
\* watchdog only cancels a job that is still running with an expired lock,
\* and the cancelled run is recorded as failed.
C24_Watchdog ==
    /\ \A w \in Workers : \A j \in JobIds :
          RunsExpiredOn(w, j)
          ~> (/\ ~ RunsOn(w, j)
              /\ j \notin proc[w].p.runningJobsMap
              /\ j \notin proc[w].p.lockedJobsMap)
    /\ [][\A w \in Workers :
             (/\ Len(proc'[w].p.runs) < Len(proc[w].p.runs)
              /\ proc'[w].p.lastSettle.error = "lockLifetime")
             => LET j == proc'[w].p.lastSettle.id IN
                /\ RunsExpiredOn(w, j)
                /\ proc'[w].p.lastSettle.canceled
                /\ store'[j].failCount = store[j].failCount + 1]_vars
\* The watchdog has cancelled a run whose lock expired, and the job is in
\* neither running nor locked.
C24_Witness ==
    \E w \in Workers :
        LET last == proc[w].p.lastSettle IN
        /\ last.error = "lockLifetime"
        /\ last.id \in JobIds
        /\ ~ RunsOn(w, last.id)
        /\ last.id \notin proc[w].p.runningJobsMap
        /\ last.id \notin proc[w].p.lockedJobsMap
        /\ store[last.id].failCount = 1

\* The error of a failed claim call of the pass of name n reaches worker w
\* in this step.
ClaimErrorArrives(w, n) ==
    ops[w].fill[n].pc = "failed" /\ ops'[w].fill[n].pc # "failed"

\* C25: when the claim call of the pass of a name fails, the error is
\* emitted, the step adds nothing to locked or to the Ready Queue and leaves
\* the passes of the other names as they are; when every other pass has
\* ended, process() goes on to the dispatch pass.
C25_ClaimFailure ==
    [][\A w \in Workers : \A n \in JobNames :
          ClaimErrorArrives(w, n)
          => LET p == proc[w].p
                 q == proc'[w].p
                 caught == [p EXCEPT !.isJobQueueFilling = @ \ {n},
                                     !.fillErrors = @ \cup {n}]
                 others == DOMAIN cfg.defs \ {n}
             IN  /\ n \in q.fillErrors
                 /\ n \notin q.isJobQueueFilling
                 /\ q.lockedJobsMap \subseteq p.lockedJobsMap
                 /\ QueuedIds(q.jobQueue) \subseteq QueuedIds(p.jobQueue)
                 /\ \A m \in JobNames : q.jobStatus[m].locked <= p.jobStatus[m].locked
                 /\ q.isJobQueueFilling \ {n} = p.isJobQueueFilling \ {n}
                 /\ store' = store
                 /\ IF \A m \in others : ops[w].fill[m].pc = "ended"
                    THEN /\ \A m \in JobNames : ops'[w].fill[m].pc = "idle"
                         /\ q = JobProcessing(caught, {}, clock)
                    ELSE /\ \A m \in others : ops'[w].fill[m] = ops[w].fill[m]
                         /\ ops'[w].fill[n].pc = "ended"
                         /\ q = caught]_vars

\* The pass of name A failed in the first process() call, and the job of
\* name B claimed by the same call runs.
C25_Witness ==
    \E w \in Workers :
        /\ clock = ClockStart
        /\ proc[w].p.fillErrors = {"A"}
        /\ proc[w].p.lockedJobsMap = {3}
        /\ 3 \in proc[w].p.runningJobsMap

\* No disconnect() is waiting for its client to close.
PoolQuiet == \A i \in 1..Len(proc.pools) : proc.closing[i] = 0

\* C26: the reference count of a pool is never negative and, when no call is
\* under way, equals the getInstance calls that returned it minus the
\* disconnect calls on it, never going below 0; getInstance for the key of a
\* pool that is still held returns that pool and counts one more.
C26_ReferenceCount ==
    /\ [](\A i \in 1..Len(proc.pools) :
             /\ proc.pools[i].referenceCount >= 0
             /\ PoolQuiet => proc.pools[i].referenceCount = proc.holders[i])
    /\ [][\A i \in 1..Len(proc.pools) :
             (/\ proc'.callsMade # proc.callsMade
              /\ proc'.holders # proc.holders
              /\ Len(proc'.holders) >= Len(proc.holders)
              /\ \A k \in 1..Len(proc.holders) : proc'.holders[k] >= proc.holders[k]
              /\ proc.madeFor[i] = proc'.last.key
              /\ proc.holders[i] > 0)
             => /\ proc'.last.instance = i
                /\ proc'.pools[i].referenceCount = proc.pools[i].referenceCount + 1]_vars

\* Job j waits in the Ready Queue of worker w before its nextRunAt, which
\* is no more than processEvery ahead.
WaitsAhead(w, j) ==
    \E i \in 1..Len(proc[w].p.jobQueue) :
        LET job == proc[w].p.jobQueue[i] IN
        /\ job.id = j
        /\ job.nextRunAt # NULL
        /\ job.nextRunAt > clock
        /\ job.nextRunAt - clock <= cfg.processEvery

\* The lock of job j, as the Ready Queue of worker w holds it, is less than
\* lockLifetime old.
QueuedLockFresh(w, j) ==
    \A i \in 1..Len(proc[w].p.jobQueue) :
        LET job == proc[w].p.jobQueue[i] IN
        job.id = j => /\ job.lockedAt # NULL
                      /\ job.lockedAt > clock - cfg.defs[job.name].lockLifetime

\* C27 (amended): a handler is started only for a job whose nextRunAt is
\* null or not after now; a job that waits in the Ready Queue before its
\* nextRunAt, within the scan horizon, stays in the Ready Queue and in locked
\* while its lock has not expired, and is not run in any case.
C27_NotBeforeUnlessExpired ==
    [][\A w \in Workers :
          /\ Len(proc'[w].p.runs) > Len(proc[w].p.runs)
             => LET job == proc'[w].p.runs[Len(proc'[w].p.runs)] IN
                job.nextRunAt = NULL \/ job.nextRunAt <= clock
          /\ \A j \in JobIds :
                (WaitsAhead(w, j) /\ clock' = clock)
                => /\ QueuedLockFresh(w, j) => j \in QueuedIds(proc'[w].p.jobQueue)
                   /\ j \in proc'[w].p.lockedJobsMap
                   /\ ~ RunsOn(w, j)']_vars

\* A job that was waiting for its nextRunAt has left the Ready Queue with
\* its lock expired: it is locked, not queued and not running, and a job
\* that was due has been run.
C27_Witness ==
    \E w \in Workers : \E j \in JobIds :
        /\ j \in proc[w].p.lockedJobsMap
        /\ j \notin QueuedIds(proc[w].p.jobQueue)
        /\ ~ RunsOn(w, j)
        /\ store[j].nextRunAt # NULL
        /\ store[j].nextRunAt > clock
        /\ store[j].lockedAt # NULL
        /\ store[j].lockedAt <= clock - cfg.defs[store[j].name].lockLifetime
        /\ \E k \in JobIds : store[k].lastFinishedAt >= ClockStart

\* C27: a handler is started only for a job whose nextRunAt is null or not
\* after now; a job that waits in the Ready Queue before its nextRunAt,
\* within the scan horizon, stays in the Ready Queue and in locked.
C27_NotBeforeNextRunAt ==
    [][\A w \in Workers :
          /\ Len(proc'[w].p.runs) > Len(proc[w].p.runs)
             => LET job == proc'[w].p.runs[Len(proc'[w].p.runs)] IN
                job.nextRunAt = NULL \/ job.nextRunAt <= clock
          /\ \A j \in JobIds :
                (WaitsAhead(w, j) /\ clock' = clock)
                => /\ j \in QueuedIds(proc'[w].p.jobQueue)
                   /\ j \in proc'[w].p.lockedJobsMap
                   /\ ~ RunsOn(w, j)']_vars


\* The number of records the claim call in flight for a name asks for.
AskedFor(op) == IF op.kind = "batch" THEN op.batchSize ELSE 1

\* The free lock slots of worker state p for a name, as specified: the
\* smaller of totalLockLimit - |locked| and lockLimit(name) - locked[name],
\* a limit of 0 being unbounded and a name never counted having 0 locked.
FreeLockSlots(p, name) ==
    LET globalFree == IF cfg.totalLockLimit = 0 THEN Unlimited
                      ELSE cfg.totalLockLimit - Len(p.lockedJobs)
        perNameFree == IF cfg.defs[name].lockLimit = 0 THEN Unlimited
                       ELSE cfg.defs[name].lockLimit
                            - (IF p.jobStatus[name].has THEN p.jobStatus[name].locked ELSE 0)
    IN  Min(globalFree, perNameFree)

\* C28: every claim call a discovery step issues for a name asks for at most
\* min(configured batch size, free lock slots) records, the first step for
\* a name included, and is a batch claim exactly when batch processing is
\* enabled and that number is above 1.
C28_ClaimSize ==
    [][\A w \in Workers : \A n \in JobNames :
          (ops'[w].fill[n].pc = "issued" /\ ops[w].fill[n].pc # "issued")
          => LET configured == IF cfg.batchSize # 0 THEN cfg.batchSize
                               ELSE DefaultBatchSize
                 number == Min(configured, FreeLockSlots(proc'[w].p, n))
             IN  /\ AskedFor(ops'[w].fill[n]) <= number
                 /\ (ops'[w].fill[n].kind = "batch")
                    <=> (cfg.enableBatchProcessing /\ number > 1)]_vars


\* runOrRetry has put job j of worker w back for later and the job waits.
Requeued(w, j) ==
    /\ proc[w].p.lastRetry.id = j
    /\ j \in QueuedIds(proc[w].p.jobQueue)
    /\ ~ RunsOn(w, j)

\* The step of worker w is a runOrRetry call that finds a ceiling reached:
\* the job is back in the Ready Queue and still in locked, no handler has
\* started and no counter of running has changed; in a step that is the
\* dispatch pass alone, locked and every counter are as they were.
RetryStep(w) ==
    proc'[w].p.lastRetry # proc[w].p.lastRetry
    => LET j == proc'[w].p.lastRetry.id
           name == store[j].name
       IN  /\ \/ Len(proc[w].p.runningJobs) >= cfg.maxConcurrency
              \/ /\ cfg.defs[name].concurrency # 0
                 /\ proc[w].p.jobStatus[name].running >= cfg.defs[name].concurrency
           /\ j \in QueuedIds(proc'[w].p.jobQueue)
           /\ j \in proc'[w].p.lockedJobsMap
           /\ proc'[w].p.runs = proc[w].p.runs
           /\ proc'[w].p.runningJobs = proc[w].p.runningJobs
           /\ \A n \in JobNames :
                 proc'[w].p.jobStatus[n].running = proc[w].p.jobStatus[n].running
           /\ ops' = ops => /\ proc'[w].p.lockedJobs = proc[w].p.lockedJobs
                            /\ proc'[w].p.jobStatus = proc[w].p.jobStatus

EligibleNow(p, st, j, name) ==
    ProcessWhere(st, j, name, p.nextScanAt, clock - cfg.defs[name].lockLifetime)

\* The pass of worker w for a name is between its first line and its end.
PassOpen(w, name) == ops[w].fill[name].pc \notin {"idle", "ended"}

\* The reply of a claim call reaches the pass of worker w for a name: the
\* pass goes on only after a reply with records and while shouldLock holds,
\* and no record of the reply can be claimed again; it ends after an empty
\* reply, or else with a lock limit reached; after an empty reply no record
\* of the name is left that a claim call would take.
PassStep(w, name) ==
    (ops[w].fill[name].pc = "ready" /\ ops'[w].fill[name].pc # "ready")
    => LET ret == ops[w].fill[name].ret
           goesOn == ops'[w].fill[name].pc = "issued"
       IN  /\ goesOn => /\ Len(ret) > 0
                        /\ ShouldLock(proc'[w].p, name)
                        /\ \A i \in 1..Len(ret) :
                              ~ EligibleNow(proc'[w].p, store', ret[i].id, name)
           /\ ~ goesOn
              => \/ Len(ret) = 0
                 \/ /\ cfg.totalLockLimit # 0
                    /\ Len(proc[w].p.lockedJobs) + Len(ret) >= cfg.totalLockLimit
                 \/ /\ cfg.defs[name].lockLimit # 0
                    /\ proc[w].p.jobStatus[name].locked + Len(ret)
                          >= cfg.defs[name].lockLimit
           /\ Len(ret) = 0
              => /\ ~ goesOn
                 /\ \A j \in JobIds : ~ EligibleNow(proc'[w].p, store', j, name)

C31_DisabledNeverClaimed ==
    [][\A j \in JobIds :
          (store'[j].lockedAt # store[j].lockedAt /\ store'[j].lockedAt # NULL)
          => ~ store[j].disabled]_vars


\* The number of jobs in queue q that have their timer and are due at t.
TimedCount(q, t) ==
    Cardinality({i \in 1..Len(q) : q[i].timer /\ q[i].nextRunAt = t})

\* C32: a step arms at most one timer, and only for a job object that had
\* none and is back in the Ready Queue with its flag set: a dispatch pass
\* over a queued job that has its timer arms no second one.
C32_OneTimer ==
    [][\A w \in Workers : \A t \in ClockStart..(ProcClockEnd + 2) :
          CopiesIn(t, proc'[w].p.timers) > CopiesIn(t, proc[w].p.timers)
          => /\ CopiesIn(t, proc'[w].p.timers) = CopiesIn(t, proc[w].p.timers) + 1
             /\ TimedCount(proc'[w].p.jobQueue, t) = TimedCount(proc[w].p.jobQueue, t) + 1
             /\ t > clock
             /\ t - clock <= cfg.processEvery]_vars

\* A job waits in the Ready Queue with its one timer pending after a
\* handler of the same period has settled and the dispatch pass that its
\* end scheduled has gone over the queue.
C32_Witness ==
    \E w \in Workers : \E i \in 1..Len(proc[w].p.jobQueue) :
        LET job == proc[w].p.jobQueue[i] IN
        /\ job.timer
        /\ job.nextRunAt > clock
        /\ CopiesIn(job.nextRunAt, proc[w].p.timers) = 1
        /\ clock = ClockStart
        /\ NoImmediate(w)
        /\ proc[w].p.lastSettle.id \notin {0, job.id}


\* The number of the jobs of a name in a collection of job ids.
CountOf(ids, name) ==
    Cardinality({i \in 1..Len(ids) : store[ids[i]].name = name})

\* C33: for every worker and every name, locked[name] is the number of jobs
\* of the name in the locked collection and running[name] the number of
\* jobs of the name in the running collection.
C33_CountersMatch ==
    \A w \in Workers : \A n \in JobNames :
        /\ proc[w].p.jobStatus[n].locked = CountOf(proc[w].p.lockedJobs, n)
        /\ proc[w].p.jobStatus[n].running = CountOf(proc[w].p.runningJobs, n)


\* C34: every job in the locked collection of a running worker is in the
\* Ready Queue, or among the handled jobs of a dispatch pass still pending,
\* or in running: a job dropped with an expired lock does not stay in locked.
C34_LockedAccounted ==
    \A w \in Workers :
        proc[w].p.isRunning
        => \A j \in proc[w].p.lockedJobsMap :
              \/ j \in QueuedIds(proc[w].p.jobQueue)
              \/ \E handledJobs \in proc[w].p.immediates : j \in handledJobs
              \/ j \in proc[w].p.runningJobsMap


\* ConnectSpec: the pools of a process whose holders call connect(), each
\* call stopping at `await MongoClient.connect(...)` when it found no client.
\* calls holds the connect() calls: per sharer its position, the pool it
\* called, the client MongoClient.connect made for it (0 for none), the
\* client of the handle it got, and the calls of the same pool that were
\* waiting when it was made; created counts the clients made, and client
\* remembers which one each pool holds.
NumSharers == 2
Sharers == 1..NumSharers

ConnectIdle == [pc |-> "idle", pool |-> 0, client |-> 0, db |-> 0, with |-> {}]

ConnectInit ==
    /\ proc = [instances |-> [k \in PoolKeys |-> 0],
               pools |-> <<>>,
               closing |-> <<>>,
               madeFor |-> <<>>,
               holders |-> <<>>,
               callsMade |-> 0,
               last |-> [key |-> GetPoolKey("u", "unset"), instance |-> 0]]
    /\ calls = [created |-> 0,
                client |-> [i \in 1..MaxPoolCalls |-> 0],
                conn |-> [s \in Sharers |-> ConnectIdle]]
    /\ retry = RetryIdle
    /\ coll = <<>>
    /\ savers = <<>>
    /\ clock = ClockStart
    /\ store = <<>>
    /\ cfg = <<>>
    /\ ops = <<>>

\* connect() is called: `if (!this.mongoClient)` and, without a client, the
\* call of MongoClient.connect; with one, `return this.mongoClient.db()`.
ConnectCalled(s, i) ==
    /\ calls.conn[s].pc = "idle"
    /\ i \in 1..Len(proc.pools)
    /\ LET waiting == {t \in Sharers : calls.conn[t].pc = "awaiting" /\ calls.conn[t].pool = i}
       IN  calls' = IF proc.pools[i].mongoClient
                    THEN [calls EXCEPT !.conn[s] =
                            [pc |-> "done", pool |-> i, client |-> 0,
                             db |-> calls.client[i], with |-> waiting]]
                    ELSE [calls EXCEPT !.created = @ + 1,
                                       !.conn[s] =
                            [pc |-> "awaiting", pool |-> i, client |-> calls.created + 1,
                             db |-> 0, with |-> waiting]]
    /\ UNCHANGED <<retry, coll, savers, clock, store, cfg, proc, ops>>

\* MongoClient.connect resolves: the client is assigned to this.mongoClient
\* and connect() returns this.mongoClient.db().
ConnectResolved(s) ==
    /\ calls.conn[s].pc = "awaiting"
    /\ proc' = [proc EXCEPT !.pools[calls.conn[s].pool].mongoClient = TRUE]
    /\ calls' = [calls EXCEPT !.client[calls.conn[s].pool] = calls.conn[s].client,
                              !.conn[s].pc = "done",
                              !.conn[s].db = calls.conn[s].client]
    /\ UNCHANGED <<retry, coll, savers, clock, store, cfg, ops>>

ConnectNext ==
    \/ \E c \in ConnectionStrings, o \in PoolOptions : PoolGetInstance(c, o)
    \/ \E s \in Sharers, i \in 1..MaxPoolCalls : ConnectCalled(s, i)
    \/ \E s \in Sharers : ConnectResolved(s)
    \/ \E i \in 1..MaxPoolCalls : PoolDisconnect(i)
    \/ \E i \in 1..MaxPoolCalls : PoolClosed(i)

ConnectSpec == ConnectInit /\ [][ConnectNext]_vars

\* StealSpec: callers of the repository that claim with a lock lifetime as
\* short as the run, hold what they claimed, and release it later with
\* unlockJob (one job) or unlockJobs (the ids of a batch).
StealLockLifetime == RepoTicks

StealIssue(c) ==
    /\ calls[c].pc = "idle"
    /\ \A d \in CallIds : d < c => calls[d].pc # "idle"
    /\ \E kind \in {"lockJob", "claimNext", "batch"}, n \in JobNames, j \in LockTargets,
          size \in BatchSizes :
         /\ kind = "lockJob" => n = store[j].name /\ size = 2
         /\ kind = "claimNext" => j = 1 /\ size = 2
         /\ kind = "batch" => j = 1 /\ n = "A"
         /\ calls' = [calls EXCEPT ![c] =
               [pc |-> "issued", kind |-> kind, name |-> n,
                job |-> IF kind = "lockJob" THEN j ELSE 0,
                batchSize |-> IF kind = "batch" THEN size ELSE 0,
                now |-> clock, nextScanAt |-> clock + RepoProcessEvery,
                lockDeadline |-> clock - StealLockLifetime, ids |-> <<>>, ret |-> <<>>]]
    /\ UNCHANGED <<retry, coll, savers, clock, store, cfg, proc, ops>>

StealRelease(c) ==
    /\ calls[c].pc = "done"
    /\ calls[c].ret # <<>>
    /\ store' = IF calls[c].kind = "batch"
                THEN UnlockJobs(store, RetIds(calls[c].ret))
                ELSE UnlockJob(store, calls[c].ret[1].id)
    /\ calls' = [calls EXCEPT ![c].pc = "released"]
    /\ UNCHANGED <<retry, coll, savers, clock, cfg, proc, ops>>

StealNext ==
    \/ RepoTick
    \/ \E c \in CallIds :
         \/ StealIssue(c)
         \/ RepoLockJob(c)
         \/ RepoClaimNext(c)
         \/ RepoBatchSelect(c)
         \/ RepoBatchUpdate(c)
         \/ RepoBatchFind(c)
         \/ StealRelease(c)

StealSpec == RepoInit /\ [][StealNext]_vars

\* One worker claiming in batches for a name with lock limit 1, in a
\* collection whose three records all carry that name.
BatchDocs(j) ==
    IF j = 2
    THEN {Doc("A", 0, r, NULL, FALSE) : r \in {ClockStart - 1, ClockStart + 1}}
    ELSE {Doc("A", j - 1, ClockStart - 1, l, FALSE) : l \in {NULL, 0}}

BatchInit ==
    /\ retry = RetryIdle
    /\ coll = <<>>
    /\ savers = <<>>
    /\ calls = <<>>
    /\ clock = ClockStart
    /\ store \in {st \in [JobIds -> UNION {BatchDocs(j) : j \in JobIds}] :
                    \A j \in JobIds : st[j] \in BatchDocs(j)}
    /\ cfg \in {[c EXCEPT !.workers = {1}] :
                  c \in {k \in Configs : k.enableBatchProcessing /\ DOMAIN k.defs = {"A"}}}
    /\ proc = [w \in Workers |->
                 IF w \in cfg.workers
                 THEN [p |-> NewProcessor(ClockStart), processDue |-> TRUE]
                 ELSE [p |-> [NewProcessor(ClockStart) EXCEPT !.isRunning = FALSE],
                       processDue |-> FALSE]]
    /\ ops = [w \in Workers |-> [fill |-> [n \in JobNames |-> FillIdle], fly |-> FlyIdle]]

\* The lock lifetime is longer than the run here, so no watchdog fires.
BatchNext ==
    \/ \E w \in Workers : ProcessTick(w)
    \/ \E w \in Workers, n \in JobNames : FillClaimNext(w, n)
    \/ \E w \in Workers, n \in JobNames : FillBatchSelect(w, n)
    \/ \E w \in Workers, n \in JobNames : FillBatchUpdate(w, n)
    \/ \E w \in Workers, n \in JobNames : FillBatchFind(w, n)
    \/ \E w \in Workers, n \in JobNames : FillReply(w, n)
    \/ \E w \in Workers, j \in JobIds : UnlockSent(w, j)
    \/ \E w \in Workers, h \in SUBSET JobIds : DispatchImmediate(w, h)
    \/ \E w \in Workers, t \in ClockStart..ProcClockEnd : TimerFires(w, t)
    \/ \E w \in Workers, i \in 1..(2 * NumJobs), ok \in BOOLEAN : HandlerSettles(w, i, ok)
    \/ ProcTick

BatchSpec == BatchInit /\ [][BatchNext]_vars

\* The records of a reply are accounted for by the worker: tracked in its
\* locked collection, or a release of them is on its way to the store.
Accounted(p, ret) ==
    \A i \in 1..Len(ret) : ret[i].id \in p.lockedJobsMap \/ ret[i].id \in p.unlocks

\* C35: every record a claim call stamped and returned is, at the end of the
\* discovery or lock-on-the-fly step that receives it, tracked in locked or
\* released, every record of a batch included when the lock limit is
\* reached partway through it.
C35_ClaimedTrackedOrReleased ==
    [][\A w \in Workers :
          /\ \A n \in JobNames :
                (ops[w].fill[n].pc = "ready" /\ ops'[w].fill[n] # ops[w].fill[n])
                => Accounted(proc'[w].p, ops[w].fill[n].ret)
          /\ (ops[w].fly.pc = "ready" /\ ops'[w].fly # ops[w].fly)
             => Accounted(proc'[w].p, ops[w].fly.ret)]_vars


\* C36: in every state the ids of the jobsToLock array are the keys of
\* jobsToLockMap, the ids of lockedJobs the keys of lockedJobsMap and the
\* ids of runningJobs the keys of runningJobsMap.
C36_DualTracked ==
    \A w \in Workers :
        /\ {proc[w].p.jobsToLock[i].id : i \in 1..Len(proc[w].p.jobsToLock)}
              = proc[w].p.jobsToLockMap
        /\ Range(proc[w].p.lockedJobs) = proc[w].p.lockedJobsMap
        /\ Range(proc[w].p.runningJobs) = proc[w].p.runningJobsMap


\* C37: once stop() has returned, the worker issues no further claim call
\* to the store (a pass or a lock-on-the-fly loop in flight included) and no
\* step adds a job to its locked collection.
C37_NoClaimAfterStop ==
    [][\A w \in cfg.workers :
          ~ proc[w].p.isRunning
          => /\ \A n \in JobNames :
                   ops'[w].fill[n].pc = "issued" => ops[w].fill[n].pc = "issued"
             /\ ops'[w].fly.pc = "issued" => ops[w].fly.pc = "issued"
             /\ proc'[w].p.lockedJobsMap \subseteq proc[w].p.lockedJobsMap]_vars


\* C38: a release clears only claims of the releasing caller: the step in
\* which a caller releases changes the lockedAt of no record whose lockedAt
\* another caller wrote.
C38_ReleaseOwnOnly ==
    [][\A c \in CallIds :
          (calls[c].pc = "done" /\ calls'[c].pc = "released")
          => \A j \in JobIds :
                store'[j].lockedAt # store[j].lockedAt => store[j].lockedBy = c]_vars


\* C39: within one worker no job id has two entries in the Ready Queue and
\* no job id has two handler invocations in progress.
C39_NoDuplicates ==
    \A w \in Workers :
        /\ \A i, k \in 1..Len(proc[w].p.jobQueue) :
              proc[w].p.jobQueue[i].id = proc[w].p.jobQueue[k].id => i = k
        /\ \A i, k \in 1..Len(proc[w].p.runs) :
              proc[w].p.runs[i].id = proc[w].p.runs[k].id => i = k


\* C40: a connect() call made while another connect() of the same instance
\* is waiting creates no further client, and the two calls return handles
\* of the same client.
C40_OneClient ==
    \A s \in Sharers : \A t \in calls.conn[s].with :
        /\ calls.conn[s].client = 0
        /\ (calls.conn[s].pc = "done" /\ calls.conn[t].pc = "done")
           => calls.conn[s].db = calls.conn[t].db

====
